---- MODULE Spec2Model ----
(***************************************************************************)
(* Paranoid Scientist: the call-interception pipeline of decorators.py     *)
(* (_wrap._decorated and the four _check_* functions), the per-function    *)
(* property bag of utils.py and the two-level settings store of            *)
(* settings.py.                                                            *)
(*                                                                         *)
(* A call of a decorated function is one action: the whole of _decorated,  *)
(* from the 'enabled' lookup to the return or the raise.  The body of the  *)
(* underlying function is arbitrary user code, so the value it returns is  *)
(* an input of the action.                                                 *)
(***************************************************************************)
EXTENDS Integers, Sequences, FiniteSets, TLC

VARIABLES
    global_setting_values,  \* Settings.__global_setting_values: name -> value
    settings_ref,           \* per function object: which settings dict its
                            \* __function_settings__ attribute refers to
    settings_dict,          \* the settings dicts themselves (shared by reference)
    verify,                 \* per decorated function: its __verify__ property bag
    hist,                   \* history: the values handed to Settings._set so far
    last,                   \* the operation that ran last and what it did
    layers,                 \* the number of _decorated wrappers around g, the
                            \* function decorators are applied to step by step
    applied,                \* history: how many times each decorator was
                            \* applied to g so far
    run                     \* test_function: where it is, its locals, and
                            \* what its calls did so far

vars == <<global_setting_values, settings_ref, settings_dict, verify, hist, last,
          layers, applied, run>>

(***************************************************************************)
(* Bounds of the model.                                                    *)
(***************************************************************************)
\* arguments and return values are the integers 0..MaxVal (and "hello")
MaxVal == 1
\* max_cache is set to values in 0..MaxCacheSetting
MaxCacheSetting == 2

(***************************************************************************)
(* Python values.  kind is the value's type; n its number (0 for a str).   *)
(* An exception raised by an evaluation is a value whose kind is the       *)
(* exception class; every class below derives from Exception.              *)
(***************************************************************************)
IntVal(n) == [kind |-> "int", n |-> n]

BoolVal(b) == [kind |-> "bool", n |-> IF b THEN 1 ELSE 0]

Hello == [kind |-> "str", n |-> 0]

\* the value None
PyNone == [kind |-> "NoneType", n |-> 0]

Raise(cls) == [kind |-> cls, n |-> 0]

ExceptionClasses == {"NameError", "TypeError"}

IsRaise(v) == v.kind \in ExceptionClasses

\* bool(v): the truth value Python's "not" and "if" give a value
Truthy(v) == IF v.kind = "str" THEN TRUE ELSE v.n # 0

Ints == {IntVal(n) : n \in 0..MaxVal}

(***************************************************************************)
(* dict.update, dict.copy and the {k+suffix : v} comprehension.            *)
(***************************************************************************)
EmptyDict == [k \in {} |-> TRUE]

Update(d, e) ==
    [k \in (DOMAIN d) \cup (DOMAIN e) |-> IF k \in DOMAIN e THEN e[k] ELSE d[k]]

Suffixed(d, sfx) ==
    [k \in {j \o sfx : j \in DOMAIN d} |->
        d[CHOOSE j \in DOMAIN d : j \o sfx = k]]

_bt == "__BACKTICK__"

_dbt == "__DOUBLEBACKTICK__"

(***************************************************************************)
(* Compiled conditions.  eval(code, globals, {}) of a compiled condition   *)
(* is Eval of its expression tree in the dict of globals: a name that is   *)
(* no key of the dict raises NameError, an order comparison of a str with  *)
(* a number raises TypeError, "and" and "if-else" evaluate lazily.         *)
(***************************************************************************)
Name(id) == [op |-> "name", id |-> id]

Const(v) == [op |-> "const", v |-> v]

Compare(o, l, r) == [op |-> o, l |-> l, r |-> r]

BoolAnd(l, r) == [op |-> "and", l |-> l, r |-> r]

IfElse(body, test, orelse) ==
    [op |-> "ifelse", body |-> body, test |-> test, orelse |-> orelse]

CompareOps == {">", ">=", "!="}

Numeric(v) == v.kind \in {"int", "bool"}

CompareValues(o, a, b) ==
    IF o = "!=" THEN BoolVal(a # b /\ ~(Numeric(a) /\ Numeric(b) /\ a.n = b.n))
    ELSE IF ~(Numeric(a) /\ Numeric(b)) THEN Raise("TypeError")
    ELSE IF o = ">" THEN BoolVal(a.n > b.n)
    ELSE BoolVal(a.n >= b.n)

RECURSIVE Eval(_, _)
Eval(e, globals) ==
    IF e.op = "name" THEN
        IF e.id \in DOMAIN globals THEN globals[e.id] ELSE Raise("NameError")
    ELSE IF e.op = "const" THEN e.v
    ELSE IF e.op \in CompareOps THEN
        LET a == Eval(e.l, globals) IN
        IF IsRaise(a) THEN a
        ELSE LET b == Eval(e.r, globals) IN
             IF IsRaise(b) THEN b ELSE CompareValues(e.op, a, b)
    ELSE IF e.op = "and" THEN
        LET a == Eval(e.l, globals) IN
        IF IsRaise(a) \/ ~Truthy(a) THEN a ELSE Eval(e.r, globals)
    ELSE \* body if test else orelse
        LET t == Eval(e.test, globals) IN
        IF IsRaise(t) THEN t
        ELSE IF Truthy(t) THEN Eval(e.body, globals)
        ELSE Eval(e.orelse, globals)

(***************************************************************************)
(* Function objects.  A decorated function is known to its callers by the  *)
(* wrapper _wrap returned; the wrapper's __wrapped__ attribute is the      *)
(* function it wraps, and that inner function is the "func" _decorated     *)
(* and the _check_* functions are closed over.  f1 is a plain function.    *)
(***************************************************************************)
Wrappers ==
    {"add_three", "subtract", "simple", "invert", "quasitrans", "bounded", "g",
     "pair", "mixed", "kwarg_only", "MyClass.f", "MyClassSub1.g"}

PlainFunctions == {"f1"}

__wrapped__(w) == w \o ".__wrapped__"

FunctionObjects == Wrappers \cup {__wrapped__(w) : w \in Wrappers} \cup PlainFunctions

HasWrapped(o) == o \in Wrappers

\* the decorated function a function object belongs to
FunctionOf(o) ==
    IF \E w \in Wrappers : o = __wrapped__(w)
    THEN CHOOSE w \in Wrappers : o = __wrapped__(w)
    ELSE o

None == "None"

NoAttr == "NoAttr"

(***************************************************************************)
(* settings.py.  A setting's value is a Python value: a bool, an int, or   *)
(* (for "namespace") a dict.  A dict is held as its entries under str      *)
(* keys (items) and the number n of its keys that are not str.             *)
(***************************************************************************)
DictVal(d) == [kind |-> "dict", n |-> 0, items |-> d]

\* a Python float, held in tenths: FloatVal(31) is 3.1, FloatVal(10) is 1.0
FloatVal(tenths) == [kind |-> "float", n |-> tenths]

\* {1: 2}: a dict with a key that is not a str
IntKeyedDict == [kind |-> "dict", n |-> 1, items |-> EmptyDict]

DefaultMaxRuntime == 2

DefaultMaxCache == 2

DefaultSettings ==
    [k \in {"enabled", "max_runtime", "max_cache", "namespace"} |->
        CASE k = "enabled" -> BoolVal(TRUE)
          [] k = "max_runtime" -> IntVal(DefaultMaxRuntime)
          [] k = "max_cache" -> IntVal(DefaultMaxCache)
          [] OTHER -> DictVal(EmptyDict)]

\* Settings.__validate_settings (isinstance(True, int) holds in Python, and
\* True == 1, so a bool passes the max_cache rule and 0 and 1 the enabled rule)
validate_settings(name, x) ==
    CASE name = "enabled" ->
            \/ Numeric(x) /\ x.n \in {0, 1}
            \/ x.kind = "float" /\ x.n \in {0, 10}
      [] name = "max_runtime" -> x.kind \in {"int", "float"} /\ x.n >= 0
      [] name = "max_cache" -> Numeric(x) /\ x.n >= 0
      [] OTHER -> x.kind = "dict" /\ x.n = 0

\* Settings._set with a function-local value written to the global table too
Settings__set_leaky(name, value, function) ==
    IF name \notin DOMAIN global_setting_values
    THEN [exc |-> "NameError", glob |-> global_setting_values,
          ref |-> settings_ref, dict |-> settings_dict]
    ELSE IF ~validate_settings(name, value)
    THEN [exc |-> "ValueError", glob |-> global_setting_values,
          ref |-> settings_ref, dict |-> settings_dict]
    ELSE
        LET glob == [global_setting_values EXCEPT ![name] = value] IN
        IF function # None THEN
            LET create == settings_ref[function] = NoAttr
                ref1 == IF create THEN [settings_ref EXCEPT ![function] = function]
                        ELSE settings_ref
                dict1 == IF create THEN [settings_dict EXCEPT ![function] = EmptyDict]
                         ELSE settings_dict
                ref2 == IF create /\ HasWrapped(function)
                        THEN [ref1 EXCEPT ![__wrapped__(function)] = ref1[function]]
                        ELSE ref1
            IN  [exc |-> "none", glob |-> glob, ref |-> ref2,
                 dict |-> [dict1 EXCEPT ![ref2[function]] = Update(@, name :> value)]]
        ELSE [exc |-> "none", glob |-> glob,
              ref |-> settings_ref, dict |-> settings_dict]

\* Settings._set that leaves the function inside a wrapper without the
\* settings given to the wrapper
Settings__set_unshared(name, value, function) ==
    IF name \notin DOMAIN global_setting_values
    THEN [exc |-> "NameError", glob |-> global_setting_values,
          ref |-> settings_ref, dict |-> settings_dict]
    ELSE IF ~validate_settings(name, value)
    THEN [exc |-> "ValueError", glob |-> global_setting_values,
          ref |-> settings_ref, dict |-> settings_dict]
    ELSE IF function # None THEN
        LET create == settings_ref[function] = NoAttr
            ref1 == IF create THEN [settings_ref EXCEPT ![function] = function]
                    ELSE settings_ref
            dict1 == IF create THEN [settings_dict EXCEPT ![function] = EmptyDict]
                     ELSE settings_dict
        IN  [exc |-> "none", glob |-> global_setting_values, ref |-> ref1,
             dict |-> [dict1 EXCEPT ![ref1[function]] = Update(@, name :> value)]]
    ELSE [exc |-> "none",
          glob |-> [global_setting_values EXCEPT ![name] = value],
          ref |-> settings_ref, dict |-> settings_dict]

\* Settings._set(name, value, function=None): the new settings store, and
\* the exception raised ("none" when the value was stored)
Settings__set(name, value, function) ==
    IF name \notin DOMAIN global_setting_values
    THEN [exc |-> "NameError", glob |-> global_setting_values,
          ref |-> settings_ref, dict |-> settings_dict]
    ELSE IF ~validate_settings(name, value)
    THEN [exc |-> "ValueError", glob |-> global_setting_values,
          ref |-> settings_ref, dict |-> settings_dict]
    ELSE IF function # None THEN
        \* if not hasattr(function, FUNCTION_SETTINGS_NAME): a new dict, which
        \* the wrapped function (if there is one) is made to share
        LET create == settings_ref[function] = NoAttr
            ref1 == IF create THEN [settings_ref EXCEPT ![function] = function]
                    ELSE settings_ref
            dict1 == IF create THEN [settings_dict EXCEPT ![function] = EmptyDict]
                     ELSE settings_dict
            ref2 == IF create /\ HasWrapped(function)
                    THEN [ref1 EXCEPT ![__wrapped__(function)] = ref1[function]]
                    ELSE ref1
        IN  [exc |-> "none", glob |-> global_setting_values, ref |-> ref2,
             dict |-> [dict1 EXCEPT ![ref2[function]] = Update(@, name :> value)]]
    ELSE [exc |-> "none",
          glob |-> [global_setting_values EXCEPT ![name] = value],
          ref |-> settings_ref, dict |-> settings_dict]

\* Settings.get that never looks at the function
Settings_get_global(name, function) == global_setting_values[name]

\* Settings.get(name, function=None)
Settings_get(name, function) ==
    IF /\ function # None
       /\ settings_ref[function] # NoAttr
       /\ name \in DOMAIN settings_dict[settings_ref[function]]
    THEN settings_dict[settings_ref[function]][name]
    ELSE global_setting_values[name]

(***************************************************************************)
(* utils.py: the property bag.  The wrapper and the function it wraps      *)
(* share one __verify__ dict (functools.wraps copies the reference), so    *)
(* the bag is kept per decorated function.                                 *)
(***************************************************************************)
has_fun_prop(f, k) == k \in DOMAIN verify[FunctionOf(f)]

get_fun_prop(f, k) == verify[FunctionOf(f)][k]

(***************************************************************************)
(* types/numeric.py: Number.test(v), TRUE when no AssertionError is raised *)
(* (every int of the model is finite).                                     *)
(***************************************************************************)
Number_test(v) == Numeric(v)

\* types/base.py: Boolean.test (v in [True, False]) and Nothing.test
Boolean_test(v) ==
    \/ Numeric(v) /\ v.n \in {0, 1}
    \/ v.kind = "float" /\ v.n \in {0, 10}

Nothing_test(v) == v = PyNone

\* The classes of tests.py: MyClassSub1 and MyClassSub2 derive from MyClass.
Classes == {"MyClass", "MyClassSub1", "MyClassSub2"}

mro(c) == IF c = "MyClass" THEN {c} ELSE {c, "MyClass"}

\* an instance of the class c
Instance(c) == [kind |-> c, n |-> 0]

isinstance(v, c) == v.kind \in Classes /\ c \in mro(v.kind)

\* types/base.py: Generic(c), the type of the instances of c
Generic(c) == "Generic(" \o c \o ")"

Generic_test(type, v) == \E c \in Classes : type = Generic(c) /\ isinstance(v, c)

\* types/base.py: KeywordArguments.test
KeywordArguments_test(v) == v.kind = "dict"

\* Unchecked tests nothing.  (No call is made with an argument declared
\* Function, Generic without a class, or Not: none of them generates a
\* value.  Self.test raises VerifyError, see _check_accepts.)
Type_test(type, v) ==
    CASE type = "Number" -> Number_test(v)
      [] type = "Boolean" -> Boolean_test(v)
      [] type = "Nothing" -> Nothing_test(v)
      [] type = "KeywordArguments" -> KeywordArguments_test(v)
      [] type \in {Generic(c) : c \in Classes} -> Generic_test(type, v)
      [] OTHER -> TRUE

(***************************************************************************)
(* decorators.py: the four checks.  Each gives the exception class the     *)
(* check raises, "none" when it returns.                                   *)
(***************************************************************************)
_check_accepts(func, argvals) ==
    IF has_fun_prop(func, "argtypes") THEN
        LET argtypes == get_fun_prop(func, "argtypes") IN
        IF DOMAIN argtypes # DOMAIN argvals THEN "ArgumentTypeError"
        \* Self.test raises VerifyError, which "except AssertionError" lets
        \* through (Self is declared for the first parameter only)
        ELSE IF \E k \in DOMAIN argtypes : argtypes[k] = "Self" THEN "VerifyError"
        ELSE IF \E k \in DOMAIN argtypes : ~Type_test(argtypes[k], argvals[k])
             THEN "ArgumentTypeError"
             ELSE "none"
    ELSE "none"

\* requires_from without the "except Exception" clause
RECURSIVE requires_from_uncaught(_, _, _)
requires_from_uncaught(requires, i, full_globals) ==
    IF i > Len(requires) THEN "none"
    ELSE LET v == Eval(requires[i].code, full_globals) IN
         IF IsRaise(v) THEN v.kind
         ELSE IF ~Truthy(v) THEN "EntryConditionsError"
         ELSE requires_from_uncaught(requires, i + 1, full_globals)

\* the requirements from the i-th on: the first that is false or raises
\* ends the check.  "except Exception" turns whatever the evaluation raised
\* into EntryConditionsError.
RECURSIVE requires_from(_, _, _)
requires_from(requires, i, full_globals) ==
    IF i > Len(requires) THEN "none"
    ELSE LET v == Eval(requires[i].code, full_globals) IN
         IF IsRaise(v) THEN "EntryConditionsError"
         ELSE IF ~Truthy(v) THEN "EntryConditionsError"
         ELSE requires_from(requires, i + 1, full_globals)

\* As _check_requires, with the update the other way round: a namespace
\* key hides the argument of the same name.
_check_requires_shadowed(func, argvals) ==
    IF has_fun_prop(func, "requires") THEN
        LET full_globals == Update(argvals, Settings_get("namespace", None).items)
        IN  requires_from(get_fun_prop(func, "requires"), 1, full_globals)
    ELSE "none"

_check_requires(func, argvals) ==
    IF has_fun_prop(func, "requires") THEN
        LET full_globals == Update(Settings_get("namespace", None).items, argvals)
        IN  requires_from(get_fun_prop(func, "requires"), 1, full_globals)
    ELSE "none"

\* _check_returns left out
_check_returns_skipped(func, returnvalue) == "none"

_check_returns(func, returnvalue) ==
    IF has_fun_prop(func, "returntype") THEN
        IF Type_test(get_fun_prop(func, "returntype"), returnvalue)
        THEN "none" ELSE "ReturnTypeError"
    ELSE "none"

(***************************************************************************)
(* _check_ensures.  The loops over exec_cache of one ensures statement are *)
(* unrolled into the sequence of steps they perform, in order: a step      *)
(* either updates limited_globals from a record (src = 0: argvals,         *)
(* src = i: the i-th cache item) under a key suffix, or evaluates the      *)
(* statement in limited_globals as it then stands.                         *)
(***************************************************************************)
Step(do, src, sfx) == [do |-> do, src |-> src, sfx |-> sfx]

RECURSIVE Flatten(_)
Flatten(ss) == IF ss = <<>> THEN <<>> ELSE Head(ss) \o Flatten(Tail(ss))

\* the indices j of "for j, cache_item2 in enumerate(exec_cache)" that get
\* past "if i == j: continue"
Others(n, i) == SelectSeq([k \in 1..n |-> k], LAMBDA j : j # i)

\* for i, cache_item: update under sfx1; for j, cache_item2 (j # i): update
\* under sfx2, evaluate
PairLoop(n, sfx1, sfx2) ==
    Flatten([i \in 1..n |->
        <<Step("update", i, sfx1)>> \o
        Flatten([m \in 1..Len(Others(n, i)) |->
            <<Step("update", Others(n, i)[m], sfx2), Step("eval", 0, "")>>])])

\* for cache_item: update under sfx, evaluate
ItemLoop(n, sfx) ==
    Flatten([i \in 1..n |-> <<Step("update", i, sfx), Step("eval", 0, "")>>])

\* Steps without the second arrangement of depth 1
Steps_one_way(btdepth, n) ==
    IF btdepth = 2 THEN
        PairLoop(n, _bt, _dbt)
        \o <<Step("update", 0, _bt)>> \o PairLoop(n, "", _dbt)
        \o <<Step("update", 0, _dbt)>> \o PairLoop(n, "", _bt)
    ELSE IF btdepth = 1 THEN ItemLoop(n, _bt)
    ELSE <<Step("eval", 0, "")>>

\* the steps of one statement of temporal depth btdepth over n cache items
Steps(btdepth, n) ==
    IF btdepth = 2 THEN
        PairLoop(n, _bt, _dbt)
        \o <<Step("update", 0, _bt)>> \o PairLoop(n, "", _dbt)
        \o <<Step("update", 0, _dbt)>> \o PairLoop(n, "", _bt)
    ELSE IF btdepth = 1 THEN
        ItemLoop(n, _bt) \o <<Step("update", 0, _bt)>> \o ItemLoop(n, "")
    ELSE <<Step("eval", 0, "")>>

\* run_steps with the evaluation wrapped in try/except as _check_requires
\* wraps it
RECURSIVE run_steps_caught(_, _, _, _, _, _)
run_steps_caught(steps, k, stmt, argvals, exec_cache, st) ==
    IF k > Len(steps) THEN st
    ELSE IF steps[k].do = "update" THEN
        LET src == IF steps[k].src = 0 THEN argvals ELSE exec_cache[steps[k].src]
            new == Suffixed(src, steps[k].sfx)
        IN  run_steps_caught(steps, k + 1, stmt, argvals, exec_cache,
                [st EXCEPT !.globals = Update(@, new),
                           !.origin = Update(@, [j \in DOMAIN new |-> steps[k].src])])
    ELSE
        LET v == Eval(stmt.code, st.globals)
            st1 == [st EXCEPT !.evals =
                        Append(@, [text |-> stmt.text, globals |-> st.globals,
                                   origin |-> st.origin, value |-> v])]
        IN  IF IsRaise(v) \/ ~Truthy(v)
            THEN [st1 EXCEPT !.exc = "ExitConditionsError"]
            ELSE run_steps_caught(steps, k + 1, stmt, argvals, exec_cache, st1)

\* st = [globals: limited_globals,
\*       origin: for each key of limited_globals, the record its value was
\*               last taken from (0: this call's argvals and return value,
\*               i: the i-th cache item),
\*       evals: the evaluations made so far,
\*       exc: the exception raised, "none" so far]
RECURSIVE run_steps(_, _, _, _, _, _)
run_steps(steps, k, stmt, argvals, exec_cache, st) ==
    IF k > Len(steps) THEN st
    ELSE IF steps[k].do = "update" THEN
        LET src == IF steps[k].src = 0 THEN argvals ELSE exec_cache[steps[k].src]
            new == Suffixed(src, steps[k].sfx)
        IN  run_steps(steps, k + 1, stmt, argvals, exec_cache,
                [st EXCEPT !.globals = Update(@, new),
                           !.origin = Update(@, [j \in DOMAIN new |-> steps[k].src])])
    ELSE
        LET v == Eval(stmt.code, st.globals)
            st1 == [st EXCEPT !.evals =
                        Append(@, [text |-> stmt.text, globals |-> st.globals,
                                   origin |-> st.origin, value |-> v])]
        IN  IF IsRaise(v) THEN [st1 EXCEPT !.exc = v.kind]
            ELSE IF ~Truthy(v) THEN [st1 EXCEPT !.exc = "ExitConditionsError"]
            ELSE run_steps(steps, k + 1, stmt, argvals, exec_cache, st1)

\* for btdepth, ensurement, etext in get_fun_prop(func, "ensures")
RECURSIVE ensures_from(_, _, _, _, _)
ensures_from(ensures, s, argvals, exec_cache, st) ==
    IF s > Len(ensures) \/ st.exc # "none" THEN st
    ELSE ensures_from(ensures, s + 1, argvals, exec_cache,
            run_steps(Steps(ensures[s].btdepth, Len(exec_cache)), 1,
                      ensures[s], argvals, exec_cache, st))

\* As cache_after_append, but a full cache gives up its newest record
\* (pop() in place of pop(0)).
cache_after_append_newest(func, exec_cache, record) ==
    LET appended == Append(exec_cache, record) IN
    IF Len(appended) > Settings_get("max_cache", func).n
    THEN SubSeq(appended, 1, Len(appended) - 1) ELSE appended

\* The cache update of lines 67-75: append, then one pop(0) when the cache
\* is longer than max_cache.
cache_after_append(func, exec_cache, record) ==
    LET appended == Append(exec_cache, record) IN
    IF Len(appended) > Settings_get("max_cache", func).n
    THEN Tail(appended) ELSE appended

\* _check_ensures: the exception raised ("none" when it returns), the
\* evaluations it made, and the property bag it leaves
_check_ensures(func, returnvalue, argvals) ==
    IF has_fun_prop(func, "ensures") THEN
        LET ensures == get_fun_prop(func, "ensures")
            limited_globals ==
                Update(Update(Settings_get("namespace", None).items, argvals),
                       "__RETURN__" :> returnvalue)
            caching == \E s \in 1..Len(ensures) : ensures[s].btdepth > 0
            exec_cache ==
                IF ~caching THEN <<>>
                ELSE cache_after_append(func,
                        IF has_fun_prop(func, "exec_cache")
                        THEN get_fun_prop(func, "exec_cache") ELSE <<>>,
                        limited_globals)
            st == ensures_from(ensures, 1, argvals, exec_cache,
                    [globals |-> limited_globals,
                     origin |-> [k \in DOMAIN limited_globals |-> 0],
                     evals |-> <<>>, exc |-> "none"])
        IN  [exc |-> st.exc, evals |-> st.evals,
             bag |-> IF caching
                     THEN Update(verify[FunctionOf(func)], "exec_cache" :> exec_cache)
                     ELSE verify[FunctionOf(func)]]
    ELSE [exc |-> "none", evals |-> <<>>, bag |-> verify[FunctionOf(func)]]

(***************************************************************************)
(* _wrap._decorated.  returnvalue is what the call of func returns.        *)
(* The result: trace, the phases that ran, in order; outcome, the value    *)
(* returned to the caller or the exception raised; evals and bag as given  *)
(* by _check_ensures.                                                      *)
(***************************************************************************)
Outcome(trace, outcome, evals, bag) ==
    [trace |-> trace, outcome |-> outcome, evals |-> evals, bag |-> bag]

\* _decorated with func called before _check_requires
_decorated_invoke_early(func, argvals, returnvalue) ==
    LET bag == verify[FunctionOf(func)]
        enabled == Settings_get("enabled", func)
    IN
    IF Numeric(enabled) /\ enabled.n = 0 THEN
        Outcome(<<"func">>, returnvalue, <<>>, bag)
    ELSE IF _check_accepts(func, argvals) # "none" THEN
        Outcome(<<"_check_accepts">>, Raise(_check_accepts(func, argvals)), <<>>, bag)
    ELSE IF _check_requires(func, argvals) # "none" THEN
        Outcome(<<"_check_accepts", "func", "_check_requires">>,
                Raise(_check_requires(func, argvals)), <<>>, bag)
    ELSE IF _check_returns(func, returnvalue) # "none" THEN
        Outcome(<<"_check_accepts", "func", "_check_requires", "_check_returns">>,
                Raise(_check_returns(func, returnvalue)), <<>>, bag)
    ELSE
        LET e == _check_ensures(func, returnvalue, argvals) IN
        Outcome(<<"_check_accepts", "func", "_check_requires", "_check_returns",
                  "_check_ensures">>,
                IF e.exc # "none" THEN Raise(e.exc) ELSE returnvalue,
                e.evals, e.bag)

_decorated(func, argvals, returnvalue) ==
    LET bag == verify[FunctionOf(func)]
        enabled == Settings_get("enabled", func)
    IN
    IF Numeric(enabled) /\ enabled.n = 0 THEN
        Outcome(<<"func">>, returnvalue, <<>>, bag)
    ELSE IF _check_accepts(func, argvals) # "none" THEN
        Outcome(<<"_check_accepts">>, Raise(_check_accepts(func, argvals)), <<>>, bag)
    ELSE IF _check_requires(func, argvals) # "none" THEN
        Outcome(<<"_check_accepts", "_check_requires">>,
                Raise(_check_requires(func, argvals)), <<>>, bag)
    ELSE IF _check_returns(func, returnvalue) # "none" THEN
        Outcome(<<"_check_accepts", "_check_requires", "func", "_check_returns">>,
                Raise(_check_returns(func, returnvalue)), <<>>, bag)
    ELSE
        LET e == _check_ensures(func, returnvalue, argvals) IN
        Outcome(<<"_check_accepts", "_check_requires", "func", "_check_returns",
                  "_check_ensures">>,
                IF e.exc # "none" THEN Raise(e.exc) ELSE returnvalue,
                e.evals, e.bag)

(***************************************************************************)
(* The decorated functions: the property bags the decorators leave.        *)
(*   add_three   @accepts(Number) @returns(Number)                         *)
(*   subtract    @accepts(Number) @returns(Number) @requires("x >= 1")     *)
(*               @ensures("x > x` --> return > return`")                   *)
(*               @ensures("return >= x")                                   *)
(*   simple      @requires("x >= 1") @ensures("return >= x")               *)
(*   invert      @ensures("x > x' --> return > return'")                   *)
(*   bounded     @requires("x >= theval") @ensures("return >= theval")     *)
(*   quasitrans  @ensures("x >= x' and x' >= x'' --> return >= return''")  *)
(*   g           def g(x), no decorator applied yet                        *)
(* Each takes the one argument x.  The code of a condition is the          *)
(* expression the decorator compiles: "return" renamed __RETURN__, the     *)
(* backticks renamed to the key suffixes, "A --> B" as "(B) if (A) else    *)
(* True".  In a text of the model ' stands for the backtick.               *)
(***************************************************************************)
Requirement(code, text) == [code |-> code, text |-> text]

Ensurement(btdepth, code, text) == [btdepth |-> btdepth, code |-> code, text |-> text]

x_ge_1 == Requirement(Compare(">=", Name("x"), Const(IntVal(1))), "x >= 1")

return_ge_x ==
    Ensurement(0, Compare(">=", Name("__RETURN__"), Name("x")), "return >= x")

x_ge_theval ==
    Requirement(Compare(">=", Name("x"), Name("theval")), "x >= theval")

return_ge_theval ==
    Ensurement(0, Compare(">=", Name("__RETURN__"), Name("theval")),
               "return >= theval")

monotonic ==
    Ensurement(1,
        IfElse(Compare(">", Name("__RETURN__"), Name("__RETURN__" \o _bt)),
               Compare(">", Name("x"), Name("x" \o _bt)),
               Const(BoolVal(TRUE))),
        "x > x' --> return > return'")

transitive ==
    Ensurement(2,
        IfElse(Compare(">=", Name("__RETURN__"), Name("__RETURN__" \o _dbt)),
               BoolAnd(Compare(">=", Name("x"), Name("x" \o _bt)),
                       Compare(">=", Name("x" \o _bt), Name("x" \o _dbt))),
               Const(BoolVal(TRUE))),
        "x >= x' and x' >= x'' --> return >= return''")

x_ne_0 == Requirement(Compare("!=", Name("x"), Const(IntVal(0))), "x != 0")

return_ne_0 ==
    Ensurement(0, Compare("!=", Name("__RETURN__"), Const(IntVal(0))), "return != 0")

Active == "active" :> TRUE

Typed == ("argtypes" :> [x |-> "Number"]) @@ ("returntype" :> "Number")

Conditioned == ("requires" :> <<x_ge_1>>) @@ ("ensures" :> <<return_ge_x>>)

Decorated ==
    [w \in Wrappers |->
        CASE w = "add_three" -> Active @@ Typed
          [] w = "subtract" ->
                Active @@ Typed @@ ("requires" :> <<x_ge_1>>)
                @@ ("ensures" :> <<monotonic, return_ge_x>>)
          [] w = "simple" -> Active @@ Conditioned
          [] w = "invert" -> Active @@ ("ensures" :> <<monotonic>>)
          [] w = "g" -> EmptyDict
          [] w = "kwarg_only" -> EmptyDict
          [] w \in {"MyClass.f", "MyClassSub1.g"} ->
                Active @@ ("argtypes" :> [self |-> "Self"])
          [] w = "pair" ->
                Active @@ ("argtypes" :> [x |-> "Boolean", y |-> "Nothing"])
                @@ ("returntype" :> "Boolean")
                @@ ("requires" :> <<x_ne_0>>) @@ ("ensures" :> <<return_ne_0>>)
          [] w = "mixed" ->
                Active @@ ("argtypes" :> [x |-> "Boolean", y |-> "Function"])
          [] w = "bounded" ->
                Active @@ ("requires" :> <<x_ge_theval>>)
                @@ ("ensures" :> <<return_ge_theval>>)
          [] OTHER -> Active @@ ("ensures" :> <<transitive>>)]

(***************************************************************************)
(* The decorators.  The text of a condition is held as far as requires and *)
(* ensures read it: a sequence of tokens, each one of the arrows "-->" and *)
(* "<-->" or a stretch of text between arrows, held as the expression it   *)
(* compiles to.  In a name of such an expression "return" is still         *)
(* "return" and ' stands for the backtick.                                 *)
(***************************************************************************)
Arrow(a) == [op |-> a]

Implies == Arrow("-->")

Iff == Arrow("<-->")

\* sub in text ("-->" is found inside "<-->" too)
Contains(tokens, sub) ==
    \E i \in 1..Len(tokens) :
        tokens[i].op = sub \/ (sub = "-->" /\ tokens[i].op = "<-->")

\* text.split(sep), for a text in which sep is found only as a whole token
RECURSIVE split(_, _)
split(tokens, sep) ==
    IF \A i \in 1..Len(tokens) : tokens[i].op # sep THEN <<tokens>>
    ELSE LET i == CHOOSE i \in 1..Len(tokens) :
                    tokens[i].op = sep /\ \A j \in 1..(i - 1) : tokens[j].op # sep
         IN  <<SubSeq(tokens, 1, i - 1)>> \o split(SubSeq(tokens, i + 1, Len(tokens)), sep)

\* the empty tuple "()", what an empty part in parentheses evaluates to
EmptyTuple == [kind |-> "tuple", n |-> 0]

\* compile("(part)"): an arrow left in the part is a syntax error
CompilePart(part) ==
    IF Len(part) = 0 THEN [exc |-> "none", code |-> Const(EmptyTuple)]
    ELSE IF Len(part) = 1 /\ part[1].op \notin {"-->", "<-->"}
    THEN [exc |-> "none", code |-> part[1]]
    ELSE [exc |-> "SyntaxError", code |-> Const(EmptyTuple)]

\* "(B) if (A) else True"
IfThen(a, b) == IfElse(b, a, Const(BoolVal(TRUE)))

\* the rewriting of --> with antecedent and consequent exchanged
RewriteImplies_converse(parts) ==
    LET a == CompilePart(parts[1])
        b == CompilePart(parts[2])
    IN  IF a.exc # "none" THEN a
        ELSE IF b.exc # "none" THEN b
        ELSE [exc |-> "none", code |-> IfThen(b.code, a.code)]

\* the two rewritings, of parts that compile
RewriteImplies(parts) ==
    LET a == CompilePart(parts[1])
        b == CompilePart(parts[2])
    IN  IF a.exc # "none" THEN a
        ELSE IF b.exc # "none" THEN b
        ELSE [exc |-> "none", code |-> IfThen(a.code, b.code)]

RewriteIff(parts) ==
    LET a == CompilePart(parts[1])
        b == CompilePart(parts[2])
    IN  IF a.exc # "none" THEN a
        ELSE IF b.exc # "none" THEN b
        ELSE [exc |-> "none",
              code |-> BoolAnd(IfThen(a.code, b.code), IfThen(b.code, a.code))]

\* requires_condition with the two asserts left out: the first two parts
\* are taken, whatever follows them is dropped
requires_condition_unasserted(tokens) ==
    IF Contains(tokens, "<-->") THEN RewriteIff(split(tokens, "<-->"))
    ELSE IF Contains(tokens, "-->") THEN RewriteImplies(split(tokens, "-->"))
    ELSE CompilePart(tokens)

\* requires: the condition as compiled
requires_condition(tokens) ==
    IF Contains(tokens, "<-->") THEN
        LET condition_parts == split(tokens, "<-->") IN
        IF Len(condition_parts) # 2
        THEN [exc |-> "AssertionError", code |-> Const(EmptyTuple)]
        ELSE RewriteIff(condition_parts)
    ELSE IF Contains(tokens, "-->") THEN
        LET condition_parts == split(tokens, "-->") IN
        IF Len(condition_parts) # 2
        THEN [exc |-> "AssertionError", code |-> Const(EmptyTuple)]
        ELSE RewriteImplies(condition_parts)
    ELSE CompilePart(tokens)

\* e.replace("return", "__RETURN__") and the replacement of the backticks
RenamedId(id) ==
    CASE id = "return" -> "__RETURN__"
      [] id = "return'" -> "__RETURN__" \o _bt
      [] id = "return''" -> "__RETURN__" \o _dbt
      [] id = "x'" -> "x" \o _bt
      [] id = "x''" -> "x" \o _dbt
      [] OTHER -> id

RECURSIVE Renamed(_)
Renamed(e) ==
    IF e.op = "name" THEN Name(RenamedId(e.id))
    ELSE IF e.op = "const" THEN e
    ELSE IF e.op \in CompareOps \cup {"and"}
    THEN [e EXCEPT !.l = Renamed(e.l), !.r = Renamed(e.r)]
    ELSE [e EXCEPT !.body = Renamed(e.body), !.test = Renamed(e.test),
                   !.orelse = Renamed(e.orelse)]

RECURSIVE Ids(_)
Ids(e) ==
    IF e.op = "name" THEN {e.id}
    ELSE IF e.op = "const" THEN {}
    ELSE IF e.op \in CompareOps \cup {"and"} THEN Ids(e.l) \cup Ids(e.r)
    ELSE Ids(e.body) \cup Ids(e.test) \cup Ids(e.orelse)

\* the temporal depth of a text: "``" in e, "`" in e
Depth(tokens) ==
    LET ids == UNION {Ids(tokens[i]) : i \in {j \in 1..Len(tokens) :
                                                tokens[j].op \notin {"-->", "<-->"}}}
    IN  IF ids \cap {"x''", "return''"} # {} THEN 2
        ELSE IF ids \cap {"x'", "return'"} # {} THEN 1
        ELSE 0

\* ensures: the condition as compiled.  A failed assert raises NameError,
\* its message naming the undefined "ensurement".
ensures_condition(tokens) ==
    LET rewritten ==
            IF Contains(tokens, "<-->") THEN
                LET e_parts == split(tokens, "<-->") IN
                IF Len(e_parts) # 2
                THEN [exc |-> "NameError", code |-> Const(EmptyTuple)]
                ELSE IF Contains(e_parts[1], "-->") \/ Contains(e_parts[2], "-->")
                THEN [exc |-> "NameError", code |-> Const(EmptyTuple)]
                ELSE RewriteIff(e_parts)
            ELSE IF Contains(tokens, "-->") THEN
                LET e_parts == split(tokens, "-->") IN
                IF Len(e_parts) # 2
                THEN [exc |-> "NameError", code |-> Const(EmptyTuple)]
                ELSE RewriteImplies(e_parts)
            ELSE CompilePart(tokens)
    IN  IF rewritten.exc # "none" THEN rewritten
        ELSE [exc |-> "none", code |-> Renamed(rewritten.code)]

(***************************************************************************)
(* The decorators as they act on the property bag of the function they are *)
(* given: the exception raised ("none" when there is none) and the bag     *)
(* left when _wrap is reached.  getcallargs fails unless exactly one type  *)
(* is given for the one argument x.                                        *)
(***************************************************************************)
\* accepts without the test for argument types set before
accepts_twice(argtypes, bag) ==
    IF Len(argtypes) # 1 THEN [exc |-> "ArgumentTypeError", bag |-> bag]
    ELSE [exc |-> "none", bag |-> Update(bag, "argtypes" :> [x |-> argtypes[1]])]

accepts(argtypes, bag) ==
    IF Len(argtypes) # 1 THEN [exc |-> "ArgumentTypeError", bag |-> bag]
    ELSE IF "argtypes" \in DOMAIN bag THEN [exc |-> "ValueError", bag |-> bag]
    ELSE [exc |-> "none", bag |-> Update(bag, "argtypes" :> [x |-> argtypes[1]])]

returns(returntype, bag) ==
    IF "returntype" \in DOMAIN bag THEN [exc |-> "ValueError", bag |-> bag]
    ELSE [exc |-> "none", bag |-> Update(bag, "returntype" :> returntype)]

\* requires with the new condition in place of the ones set before
requires_replacing(tokens, text, bag) ==
    LET c == requires_condition(tokens) IN
    IF c.exc # "none" THEN [exc |-> c.exc, bag |-> bag]
    ELSE [exc |-> "none",
          bag |-> Update(bag, "requires" :> <<Requirement(c.code, text)>>)]

requires(tokens, text, bag) ==
    LET base_requires == IF "requires" \in DOMAIN bag THEN bag.requires ELSE <<>>
        c == requires_condition(tokens)
    IN  IF c.exc # "none" THEN [exc |-> c.exc, bag |-> bag]
        ELSE [exc |-> "none",
              bag |-> Update(bag, "requires" :>
                                (<<Requirement(c.code, text)>> \o base_requires))]

ensures(tokens, text, bag) ==
    LET ensures_statements == IF "ensures" \in DOMAIN bag THEN bag.ensures ELSE <<>>
        c == ensures_condition(tokens)
    IN  IF c.exc # "none" THEN [exc |-> c.exc, bag |-> bag]
        ELSE [exc |-> "none",
              bag |-> Update(bag, "ensures" :>
                                (<<Ensurement(Depth(tokens), c.code, text)>>
                                 \o ensures_statements))]

\* _wrap without the test for a function that is wrapped already
_wrap_again(bag) == [bag |-> Update(bag, Active), wrapped |-> TRUE]

\* _wrap(func): the bag left, and whether a new _decorated was put around
\* func (FALSE: func itself is returned)
_wrap(bag) ==
    IF "active" \in DOMAIN bag THEN [bag |-> bag, wrapped |-> FALSE]
    ELSE [bag |-> Update(bag, Active), wrapped |-> TRUE]

\* the object the name g is bound to: the function as defined, or the
\* wrapper the last decorator returned
Bound == IF layers = 0 THEN __wrapped__("g") ELSE "g"

\* one decorator d applied to Bound: the exception raised, the bag and the
\* settings store left, and whether a wrapper was added
decorate(d) ==
    LET bag == verify["g"]
        same == [glob |-> global_setting_values, ref |-> settings_ref,
                 dict |-> settings_dict]
        r == CASE d.kind = "accepts" -> accepts(d.argtypes, bag) @@ same
               [] d.kind = "returns" -> returns(d.returntype, bag) @@ same
               [] d.kind = "requires" -> requires(d.tokens, d.text, bag) @@ same
               [] d.kind = "ensures" -> ensures(d.tokens, d.text, bag) @@ same
               [] OTHER -> Settings__set(d.name, d.value, Bound) @@ [bag |-> bag]
    IN  IF r.exc # "none"
        THEN [exc |-> r.exc, bag |-> bag, ref |-> settings_ref,
              dict |-> settings_dict, wrapped |-> FALSE]
        ELSE LET w == _wrap(r.bag) IN
             [exc |-> "none", bag |-> w.bag,
              \* functools.wraps hands the new wrapper the settings of func
              ref |-> IF w.wrapped /\ layers = 0
                      THEN [r.ref EXCEPT !["g"] = r.ref[__wrapped__("g")]]
                      ELSE r.ref,
              dict |-> r.dict, wrapped |-> w.wrapped]

\* whether a call ended with an exception
Raised(outcome) == outcome.kind \notin {"int", "bool", "str", "NoneType"}

\* the call as the outer of two wrappers sees it, the one inside called
\* where the outer one calls what it wraps
through(outer, inner) ==
    IF \A i \in 1..Len(outer.trace) : outer.trace[i] # "func" THEN outer
    ELSE LET at == CHOOSE i \in 1..Len(outer.trace) : outer.trace[i] = "func" IN
         IF Raised(inner.outcome)
         THEN Outcome(SubSeq(outer.trace, 1, at - 1) \o inner.trace,
                      inner.outcome, inner.evals, inner.bag)
         ELSE Outcome(SubSeq(outer.trace, 1, at - 1) \o inner.trace
                        \o SubSeq(outer.trace, at + 1, Len(outer.trace)),
                      outer.outcome, inner.evals \o outer.evals, outer.bag)

\* a call of func through n wrappers, one _decorated inside the other
RECURSIVE stacked(_, _, _, _)
stacked(func, n, argvals, returnvalue) ==
    IF n = 0 THEN Outcome(<<"func">>, returnvalue, <<>>, verify[func])
    ELSE through(_decorated(__wrapped__(func), argvals, returnvalue),
                 stacked(func, n - 1, argvals, returnvalue))

(***************************************************************************)
(* testfunctions.py: test_function, taken one step at a time.              *)
(***************************************************************************)
\* generate() of a type, gone through by list(): the values, or the
\* exception raised.  Not.generate returns None, which list() refuses.
generate(type) ==
    CASE type = "Boolean" ->
            [exc |-> "none", values |-> <<BoolVal(TRUE), BoolVal(FALSE)>>]
      [] type = "Nothing" -> [exc |-> "none", values |-> <<PyNone>>]
      [] type = "Unchecked" -> [exc |-> "none", values |-> <<>>]
      [] type = "Function" -> [exc |-> "NoGeneratorError", values |-> <<>>]
      [] type = "Generic" -> [exc |-> "NoGeneratorError", values |-> <<>>]
      [] type = "Not" -> [exc |-> "TypeError", values |-> <<>>]
      [] type = "Self" -> [exc |-> "VerifyError", values |-> <<>>]

\* the argument names of the model in the order of sorted()
ArgumentNames == <<"x", "y">>

RECURSIVE sorted_from(_, _)
sorted_from(keys, i) ==
    IF i > Len(ArgumentNames) THEN <<>>
    ELSE (IF ArgumentNames[i] \in keys THEN <<ArgumentNames[i]>> ELSE <<>>)
         \o sorted_from(keys, i + 1)

sorted(keys) == sorted_from(keys, 1)

\* one list of tuples for each value, the value put in front of each tuple
RECURSIVE prepend_each(_, _, _)
prepend_each(values, rest, i) ==
    IF i > Len(values) THEN <<>>
    ELSE [j \in 1..Len(rest) |-> <<values[i]>> \o rest[j]]
         \o prepend_each(values, rest, i + 1)

\* itertools.product of a sequence of lists, the last running fastest
RECURSIVE product(_)
product(lists) ==
    IF Len(lists) = 0 THEN << <<>> >>
    ELSE prepend_each(Head(lists), product(Tail(lists)), 1)

\* {k : v for k, v in zip(sorted(args.keys()), tc)}
keywords(names, tc) ==
    [k \in {names[i] : i \in 1..Len(names)} |->
        tc[CHOOSE i \in 1..Len(names) : names[i] = k]]

Idle == [pc |-> "idle", calls |-> <<>>]

\* test_function(func) up to the loop: the assert, the test cases
test_function_begin(func) ==
    IF ~has_fun_prop(func, "argtypes")
    THEN [pc |-> "raised", func |-> func, exc |-> "AssertionError", calls |-> <<>>]
    ELSE
        LET args == get_fun_prop(func, "argtypes")
            names == sorted(DOMAIN args)
            failing == {i \in 1..Len(names) : generate(args[names[i]]).exc # "none"}
        IN
        IF failing # {} THEN
            LET first == CHOOSE i \in failing : \A j \in failing : i <= j
                exc == generate(args[names[first]]).exc
            IN  IF exc = "NoGeneratorError"
                \* testcases = []: "could not be tested"
                THEN [pc |-> "returned", func |-> func, result |-> 0, calls |-> <<>>]
                ELSE [pc |-> "raised", func |-> func, exc |-> exc, calls |-> <<>>]
        ELSE [pc |-> "loop", func |-> func,
              testcases |-> product([i \in 1..Len(names) |->
                                        generate(args[names[i]]).values]),
              tc |-> 1, totaltests |-> 0, calls |-> <<>>]

\* what a call comes to when the alarm of max_run_time goes off in the body
\* of the function: TestCaseTimeoutError raised there
timed_out(out, timeout, bag) ==
    IF timeout /\ \E i \in 1..Len(out.trace) : out.trace[i] = "func"
    THEN Outcome(SubSeq(out.trace, 1,
                        CHOOSE i \in 1..Len(out.trace) : out.trace[i] = "func"),
                 Raise("TestCaseTimeoutError"), <<>>, bag)
    ELSE out

\* func(...) under max_run_time
invoke(func, argvals, returnvalue, timeout) ==
    timed_out(stacked(func, IF func = "g" THEN layers ELSE 1, argvals, returnvalue),
              timeout, verify[func])

\* the record of one call of the loop
Called(argvals, outcome) == [argvals |-> argvals, outcome |-> outcome]

\* the loop body with every exception of Paranoid Scientist caught
after_call_swallowing(r, argvals, outcome) ==
    IF outcome.kind \in {"int", "bool", "str", "NoneType"}
    THEN [r EXCEPT !.tc = @ + 1, !.totaltests = @ + 1,
                   !.calls = Append(@, Called(argvals, outcome))]
    ELSE [r EXCEPT !.tc = @ + 1, !.calls = Append(@, Called(argvals, outcome))]

\* the loop body with a skipped case counted as performed
after_call_counting(r, argvals, outcome) ==
    IF outcome.kind \in {"int", "bool", "str", "NoneType",
                         "EntryConditionsError", "TestCaseTimeoutError"}
    THEN [r EXCEPT !.tc = @ + 1, !.totaltests = @ + 1,
                   !.calls = Append(@, Called(argvals, outcome))]
    ELSE [pc |-> "raised", func |-> r.func, exc |-> outcome.kind,
          calls |-> Append(r.calls, Called(argvals, outcome))]

\* the rest of the loop body once func(...) has returned or raised
after_call(r, argvals, outcome) ==
    IF outcome.kind \in {"int", "bool", "str", "NoneType"}
    THEN [r EXCEPT !.tc = @ + 1, !.totaltests = @ + 1,
                   !.calls = Append(@, Called(argvals, outcome))]
    ELSE IF outcome.kind \in {"EntryConditionsError", "TestCaseTimeoutError"}
    THEN [r EXCEPT !.tc = @ + 1, !.calls = Append(@, Called(argvals, outcome))]
    ELSE [pc |-> "raised", func |-> r.func, exc |-> outcome.kind,
          calls |-> Append(r.calls, Called(argvals, outcome))]

Init ==
    /\ global_setting_values = DefaultSettings
    /\ settings_ref = [o \in FunctionObjects |-> NoAttr]
    /\ settings_dict = [o \in FunctionObjects |-> EmptyDict]
    /\ verify = Decorated
    /\ hist = [glob |-> DefaultSettings,
               loc |-> [o \in Wrappers \cup PlainFunctions |-> EmptyDict]]
    /\ last = [op |-> "none"]
    /\ layers = 0
    /\ applied = EmptyDict
    /\ run = Idle

(***************************************************************************)
(* The operations.                                                         *)
(***************************************************************************)
\* a call w(x) of the decorated function w whose body returns returnvalue
Call(w, x, returnvalue) ==
    \E out \in {_decorated(__wrapped__(w), [x |-> x], returnvalue)} :
    /\ verify' = [verify EXCEPT ![w] = out.bag]
    /\ last' = [op |-> "call", func |-> w, argvals |-> [x |-> x],
                returnvalue |-> returnvalue, trace |-> out.trace,
                outcome |-> out.outcome, evals |-> out.evals,
                untouched |-> out.bag = verify[w]]
    /\ UNCHANGED <<global_setting_values, settings_ref, settings_dict, hist,
                   layers, applied, run>>

\* Settings._set(name, value, function)
Set(name, value, function) ==
    \E r \in {Settings__set(name, value, function)} :
    /\ global_setting_values' = r.glob
    /\ settings_ref' = r.ref
    /\ settings_dict' = r.dict
    /\ hist' = IF r.exc # "none" THEN hist
               ELSE IF function = None THEN [hist EXCEPT !.glob[name] = value]
               ELSE [hist EXCEPT !.loc[FunctionOf(function)] = Update(@, name :> value)]
    /\ last' = [op |-> "_set", name |-> name, value |-> value,
                function |-> function, exc |-> r.exc,
                untouched |-> /\ r.glob = global_setting_values
                              /\ r.ref = settings_ref
                              /\ r.dict = settings_dict]
    /\ UNCHANGED <<verify, layers, applied, run>>

\* how many times the decorator d was applied to g
Times(d) == IF d \in DOMAIN applied THEN applied[d] ELSE 0

RECURSIVE Sum(_, _)
Sum(f, S) == IF S = {} THEN 0
             ELSE LET d == CHOOSE d \in S : TRUE IN f[d] + Sum(f, S \ {d})

\* the number of decorators applied to g
Stacked == Sum(applied, DOMAIN applied)

\* one decorator applied to g: g = d(g)
Decorate(d) ==
    \E r \in {decorate(d)} :
    /\ verify' = [verify EXCEPT !["g"] = r.bag]
    /\ settings_ref' = r.ref
    /\ settings_dict' = r.dict
    /\ layers' = IF r.wrapped THEN layers + 1 ELSE layers
    /\ applied' = IF r.exc = "none"
                  THEN Update(applied, d :> (Times(d) + 1)) ELSE applied
    /\ hist' = IF r.exc = "none" /\ d.kind = "paranoidconfig"
               THEN [hist EXCEPT !.loc["g"] = Update(@, d.name :> d.value)]
               ELSE hist
    /\ last' = [op |-> "decorate", decorator |-> d, exc |-> r.exc,
                untouched |-> /\ r.bag = verify["g"]
                              /\ r.ref = settings_ref
                              /\ r.dict = settings_dict]
    /\ UNCHANGED <<global_setting_values, run>>

\* a call g(x) whose body returns returnvalue
CallStacked(x, returnvalue) ==
    \E out \in {stacked("g", layers, [x |-> x], returnvalue)} :
    /\ verify' = [verify EXCEPT !["g"] = out.bag]
    /\ last' = [op |-> "call", func |-> "g", argvals |-> [x |-> x],
                returnvalue |-> returnvalue, trace |-> out.trace,
                outcome |-> out.outcome, evals |-> out.evals,
                untouched |-> out.bag = verify["g"]]
    /\ UNCHANGED <<global_setting_values, settings_ref, settings_dict, hist,
                   layers, applied, run>>

\* test_function(func) is called
TestBegin(func) ==
    /\ run.pc # "loop"
    /\ run' = test_function_begin(func)
    /\ last' = [op |-> "test_function", func |-> func]
    /\ UNCHANGED <<global_setting_values, settings_ref, settings_dict, verify,
                   hist, layers, applied>>

\* one turn of "for tc in testcases": the body of func returns returnvalue,
\* unless the alarm set by max_run_time goes off first (setitimer with 0
\* seconds sets no alarm)
TestCase(returnvalue, timeout) ==
    /\ run.pc = "loop" /\ run.tc <= Len(run.testcases)
    /\ timeout => Settings_get("max_runtime", run.func).n > 0
    /\ \E argvals \in {keywords(sorted(DOMAIN get_fun_prop(run.func, "argtypes")),
                                run.testcases[run.tc])} :
       \E out \in {invoke(run.func, argvals, returnvalue, timeout)} :
        /\ verify' = [verify EXCEPT ![run.func] = out.bag]
        /\ run' = after_call(run, argvals, out.outcome)
    /\ last' = [op |-> "test_function", func |-> run.func]
    /\ UNCHANGED <<global_setting_values, settings_ref, settings_dict, hist,
                   layers, applied>>

\* the loop is over: return totaltests
TestReturn ==
    /\ run.pc = "loop" /\ run.tc > Len(run.testcases)
    /\ run' = [pc |-> "returned", func |-> run.func, result |-> run.totaltests,
               calls |-> run.calls]
    /\ UNCHANGED <<global_setting_values, settings_ref, settings_dict, verify,
                   hist, last, layers, applied>>

\* Settings.set(name=value)
SetGlobal(name, value) == Set(name, value, None)

\* paranoidconfig(name=value) applied to f, or Settings._set(..., function=f)
SetLocal(name, value, f) == Set(name, value, f)

Values == Ints \cup {Hello}

Booleans == {BoolVal(TRUE), BoolVal(FALSE)}

CacheSizes == {IntVal(n) : n \in 0..MaxCacheSetting}

(***************************************************************************)
(* Spec: calls of add_three, subtract and simple while 'enabled' is set    *)
(* and reset, globally and for subtract alone.                             *)
(***************************************************************************)
Next ==
    \/ \E w \in {"add_three", "subtract", "simple"}, x \in Values, r \in Values :
            Call(w, x, r)
    \/ \E v \in Booleans : SetGlobal("enabled", v)
    \/ \E v \in Booleans : SetLocal("enabled", v, "subtract")

Spec == Init /\ [][Next]_vars

(***************************************************************************)
(* SpecCache: calls of invert (one postcondition of depth 1) while         *)
(* max_cache is changed, globally and for invert alone.                    *)
(***************************************************************************)
NextCache ==
    \/ \E x \in Ints, r \in Ints : Call("invert", x, r)
    \/ \E v \in CacheSizes : SetGlobal("max_cache", v)
    \/ \E v \in {IntVal(0), IntVal(MaxCacheSetting)} : SetLocal("max_cache", v, "invert")

SpecCache == Init /\ [][NextCache]_vars

(***************************************************************************)
(* SpecDepth2: calls of quasitrans (one postcondition of depth 2) while    *)
(* the global max_cache is changed.                                        *)
(***************************************************************************)
NextDepth2 ==
    \/ \E x \in Ints, r \in Ints : Call("quasitrans", x, r)
    \/ \E v \in CacheSizes : SetGlobal("max_cache", v)

SpecDepth2 == Init /\ [][NextDepth2]_vars

(***************************************************************************)
(* SpecSettings: global sets and function-local sets of 'enabled' and      *)
(* max_cache, for a decorated function and for a plain one.                *)
(***************************************************************************)
SettingInputs ==
    {<<"enabled", v>> : v \in Booleans} \cup {<<"max_cache", v>> : v \in CacheSizes}

NextSettings ==
    \/ \E nv \in SettingInputs : SetGlobal(nv[1], nv[2])
    \/ \E nv \in SettingInputs, f \in {"invert", "f1"} : SetLocal(nv[1], nv[2], f)

SpecSettings == Init /\ [][NextSettings]_vars

(***************************************************************************)
(* SpecDecorate: decorators of every kind applied to g one after the       *)
(* other, in any order, and calls of g in between.                         *)
(***************************************************************************)
MaxDecorators == 3

x_ne(n) == Compare("!=", Name("x"), Const(IntVal(n)))

return_ne(n) == Compare("!=", Name("return"), Const(IntVal(n)))

StackDecorators ==
    {[kind |-> "accepts", argtypes |-> t] :
        t \in {<<"Number">>, <<"Unchecked">>, <<"Number", "Number">>}}
    \cup {[kind |-> "returns", returntype |-> t] : t \in {"Number", "Unchecked"}}
    \cup {[kind |-> "requires", tokens |-> <<x_ne(0)>>, text |-> "x != 0"],
          [kind |-> "requires", tokens |-> <<x_ne(1)>>, text |-> "x != 1"],
          [kind |-> "ensures", tokens |-> <<return_ne(0)>>, text |-> "return != 0"],
          [kind |-> "ensures", tokens |-> <<return_ne(1)>>, text |-> "return != 1"],
          [kind |-> "paranoidconfig", name |-> "enabled", value |-> BoolVal(FALSE)],
          [kind |-> "paranoidconfig", name |-> "enabled", value |-> BoolVal(TRUE)],
          [kind |-> "paranoidconfig", name |-> "max_runtime", value |-> IntVal(1)]}

NextDecorate ==
    \/ \E d \in StackDecorators : Stacked < MaxDecorators /\ Decorate(d)
    \/ \E x \in Values, r \in Values : CallStacked(x, r)

SpecDecorate == Init /\ [][NextDecorate]_vars

(***************************************************************************)
(* SpecImplies: a requires or an ensures with one arrow put on g, A and B  *)
(* on either side taking every pair of truth values over the calls.        *)
(***************************************************************************)
MaxArrows == 1

Atom(text, code) == [text |-> text, code |-> code]

Arrowed(kind, a, arrow, b) ==
    [kind |-> kind, tokens |-> <<a.code, arrow, b.code>>,
     text |-> a.text \o " " \o arrow.op \o " " \o b.text]

ArrowDecorators ==
    {Arrowed("requires", a, arrow, b) :
        a \in {Atom("x != 0", x_ne(0)), Atom("x != 1", x_ne(1))},
        b \in {Atom("x != 0", x_ne(0)), Atom("x != 1", x_ne(1))},
        arrow \in {Implies, Iff}}
    \cup {Arrowed("ensures", a, arrow, b) :
            a \in {Atom("x != 0", x_ne(0)), Atom("return != 0", return_ne(0))},
            b \in {Atom("x != 0", x_ne(0)), Atom("return != 0", return_ne(0))},
            arrow \in {Implies, Iff}}

NextImplies ==
    \/ \E d \in ArrowDecorators : Stacked < MaxArrows /\ Decorate(d)
    \/ \E x \in Values, r \in Values : CallStacked(x, r)

SpecImplies == Init /\ [][NextImplies]_vars

(***************************************************************************)
(* SpecTest: test_function run on pair and mixed, and on g under argument  *)
(* types of every kind, a return type and conditions.                      *)
(***************************************************************************)
MaxTestDecorators == 2

TestTypes ==
    {"Boolean", "Nothing", "Unchecked", "Function", "Generic", "Not", "Self"}

TestDecorators ==
    {[kind |-> "accepts", argtypes |-> <<t>>] : t \in TestTypes}
    \cup {[kind |-> "returns", returntype |-> "Boolean"],
          [kind |-> "requires", tokens |-> <<x_ne(0)>>, text |-> "x != 0"],
          [kind |-> "ensures", tokens |-> <<return_ne(0)>>, text |-> "return != 0"]}

Returned == {BoolVal(TRUE), BoolVal(FALSE), Hello}

NextTest ==
    \/ \E d \in TestDecorators :
        run.pc # "loop" /\ Stacked < MaxTestDecorators /\ Decorate(d)
    \/ \E func \in {"g", "pair", "mixed"} : TestBegin(func)
    \/ \E r \in Returned, timeout \in BOOLEAN : TestCase(r, timeout)
    \/ TestReturn

SpecTest == Init /\ [][NextTest]_vars

(***************************************************************************)
(* SpecValidation: Settings._set, globally and for a function, with names  *)
(* and values of every sort, valid or not.                                 *)
(***************************************************************************)
SettingNames == {"enabled", "max_runtime", "max_cache", "namespace", "max_chache"}

SettingValues ==
    {BoolVal(TRUE), BoolVal(FALSE), IntVal(-1), IntVal(1), FloatVal(31), Hello,
     DictVal(EmptyDict), IntKeyedDict}

LocalSettingValues == {BoolVal(FALSE), IntVal(-1), Hello}

NextValidation ==
    \/ \E name \in SettingNames, v \in SettingValues : SetGlobal(name, v)
    \/ \E name \in SettingNames, v \in LocalSettingValues : SetLocal(name, v, "f1")

SpecValidation == Init /\ [][NextValidation]_vars

(***************************************************************************)
(* SpecNamespace: calls of bounded, whose conditions use the name theval,  *)
(* while the namespace is set globally and for bounded alone.              *)
(***************************************************************************)
NamespaceNames == {"theval", "x"}

Namespaces ==
    {DictVal(d) : d \in UNION {[keys -> Ints] : keys \in SUBSET NamespaceNames}}

NextNamespace ==
    \/ \E x \in Ints, r \in Ints : Call("bounded", x, r)
    \/ \E ns \in Namespaces : SetGlobal("namespace", ns)
    \/ \E ns \in Namespaces : SetLocal("namespace", ns, "bounded")

SpecNamespace == Init /\ [][NextNamespace]_vars

(***************************************************************************)
(* What the claims speak of, stated from the contract of the function      *)
(* that was called and the values of the call.                             *)
(***************************************************************************)
Pipeline ==
    <<"_check_accepts", "_check_requires", "func", "_check_returns",
      "_check_ensures">>

IsPrefix(s, t) == Len(s) <= Len(t) /\ \A i \in 1..Len(s) : s[i] = t[i]

Invocations(trace) == Cardinality({i \in 1..Len(trace) : trace[i] = "func"})

IsCall == last.op = "call"

\* the value in effect for the decorated function w under a name: the one
\* last set for w if there was one, the one last set globally otherwise
ValueSet(name, w) ==
    IF name \in DOMAIN hist.loc[w] THEN hist.loc[w][name] ELSE hist.glob[name]

\* 'enabled' as it was set for the decorated function w
EnabledFor(w) == ValueSet("enabled", w).n # 0

CheckedCall == IsCall /\ EnabledFor(last.func)

Contract == verify[last.func]

\* every declared argument type holds of the value bound to its name
ArgumentsConform ==
    "argtypes" \in DOMAIN Contract =>
        \A k \in DOMAIN Contract.argtypes :
            Contract.argtypes[k] = "Number" => last.argvals[k].kind = "int"

\* the value each precondition has for the arguments of the call
PreconditionValues ==
    IF "requires" \in DOMAIN Contract
    THEN [i \in 1..Len(Contract.requires) |->
            Eval(Contract.requires[i].code,
                 Update(global_setting_values["namespace"].items, last.argvals))]
    ELSE <<>>

PreconditionsHold ==
    \A i \in 1..Len(PreconditionValues) :
        ~IsRaise(PreconditionValues[i]) /\ Truthy(PreconditionValues[i])

ReturnConforms ==
    ("returntype" \in DOMAIN Contract /\ Contract.returntype = "Number")
        => last.returnvalue.kind = "int"

\* the record of the call: its arguments and its return value by name
CallRecord ==
    Update(Update(global_setting_values["namespace"].items, last.argvals),
           "__RETURN__" :> last.returnvalue)

\* the records of the calls before this one that the cache held when the
\* postconditions were checked
PriorRecords ==
    IF "exec_cache" \in DOMAIN Contract /\ Len(Contract.exec_cache) > 0
    THEN {Contract.exec_cache[i] : i \in 1..(Len(Contract.exec_cache) - 1)}
    ELSE {}

\* the values a postcondition takes for this call: for depth 0 the value on
\* the call's record, for depth 1 the values on the call paired with each
\* prior record, either way round
PostconditionValues(e) ==
    IF e.btdepth = 0 THEN {Eval(e.code, CallRecord)}
    ELSE IF e.btdepth = 1 THEN
        {Eval(e.code, Update(CallRecord, Suffixed(c, _bt))) : c \in PriorRecords}
        \cup {Eval(e.code, Update(c, Suffixed(CallRecord, _bt))) : c \in PriorRecords}
    ELSE {}

Postconditions ==
    IF "ensures" \in DOMAIN Contract
    THEN {Contract.ensures[i] : i \in 1..Len(Contract.ensures)} ELSE {}

PostconditionFalse ==
    \E e \in Postconditions : \E v \in PostconditionValues(e) :
        ~IsRaise(v) /\ ~Truthy(v)

PostconditionRaises ==
    \E e \in Postconditions : \E v \in PostconditionValues(e) : IsRaise(v)

EntryChecksPass == ArgumentsConform /\ PreconditionsHold

(***************************************************************************)
(* C1.  In every enabled call the phases run in the order argument-type    *)
(* check, precondition check, invocation, return-type check, postcondition *)
(* check; the underlying function is invoked exactly once when both entry  *)
(* checks pass and not at all when the argument-type check or a            *)
(* precondition fails.                                                     *)
(***************************************************************************)
C1_PhasesInOrder ==
    CheckedCall =>
        /\ IsPrefix(last.trace, Pipeline)
        /\ EntryChecksPass => Invocations(last.trace) = 1
        /\ ~EntryChecksPass => Invocations(last.trace) = 0

\* a call of subtract that went through all five phases and returned
C1_Witness ==
    /\ CheckedCall /\ last.func = "subtract"
    /\ last.trace = Pipeline /\ last.outcome = last.returnvalue

(***************************************************************************)
(* C2.  A rejected call raises the error of the first phase that fails:    *)
(* ArgumentTypeError for an argument that fails its type, else             *)
(* EntryConditionsError for a false precondition, else ReturnTypeError for *)
(* a result that fails the return type, else ExitConditionsError for a     *)
(* false postcondition; a call that violates nothing returns the result of *)
(* the underlying function.                                                *)
(***************************************************************************)
ExpectedOutcome ==
    /\ ~ArgumentsConform => last.outcome = Raise("ArgumentTypeError")
    /\ (ArgumentsConform /\ ~PreconditionsHold)
            => last.outcome = Raise("EntryConditionsError")
    /\ (EntryChecksPass /\ ~ReturnConforms)
            => last.outcome = Raise("ReturnTypeError")
    /\ (EntryChecksPass /\ ReturnConforms /\ ~PostconditionRaises)
            => last.outcome = IF PostconditionFalse
                              THEN Raise("ExitConditionsError")
                              ELSE last.returnvalue

C2_ErrorOfFirstFailingPhase == CheckedCall => ExpectedOutcome

\* subtract("hello") with a body returning "hello": every phase would fail,
\* the argument-type check fails first
C2_Witness ==
    /\ CheckedCall /\ last.func = "subtract"
    /\ last.argvals.x = Hello /\ last.returnvalue = Hello
    /\ last.outcome = Raise("ArgumentTypeError")

C4_PostconditionErrorsPropagate ==
    (CheckedCall /\ EntryChecksPass /\ ReturnConforms) =>
        /\ last.outcome = Raise("ExitConditionsError") => PostconditionFalse
        /\ (PostconditionRaises /\ ~PostconditionFalse) =>
                /\ IsRaise(last.outcome)
                /\ \E e \in Postconditions : last.outcome \in PostconditionValues(e)

\* simple(1) with a body returning "hello": "return >= x" raises TypeError
C4_Witness ==
    /\ CheckedCall /\ last.func = "simple"
    /\ last.argvals.x = IntVal(1) /\ last.returnvalue = Hello
    /\ last.outcome = Raise("TypeError")

(***************************************************************************)
(* C5.  A call made while 'enabled' resolves to False for the function     *)
(* (globally or by the function's own override) invokes the underlying     *)
(* function once and returns its result: no check runs and the call cache  *)
(* is left as it was.  A call made while 'enabled' resolves to True is     *)
(* checked in full, whatever was set before.                               *)
(***************************************************************************)
C5_DisabledCallsUnchecked ==
    IsCall =>
        IF EnabledFor(last.func)
        THEN /\ last.trace[1] = "_check_accepts"
             /\ ExpectedOutcome
        ELSE /\ last.trace = <<"func">>
             /\ last.outcome = last.returnvalue
             /\ last.evals = <<>>
             /\ last.untouched

\* subtract("hello") returning "hello" while subtract is disabled and its
\* cache holds a record of an earlier call
C5_Witness ==
    /\ IsCall /\ last.func = "subtract" /\ ~EnabledFor("subtract")
    /\ last.argvals.x = Hello /\ last.outcome = Hello
    /\ "exec_cache" \in DOMAIN verify["subtract"]
    /\ Len(verify["subtract"].exec_cache) > 0

(***************************************************************************)
(* The evaluations of the temporal postconditions.  Cache is the call      *)
(* cache the postconditions were checked against; record 0 is the current  *)
(* call, record i the i-th item of Cache.                                  *)
(***************************************************************************)
Cache == IF "exec_cache" \in DOMAIN Contract THEN Contract.exec_cache ELSE <<>>

RecordAt(i) == IF i = 0 THEN CallRecord ELSE Cache[i]

\* the current call is in the cache as its last item
IsCurrent(i) == i = 0 \/ (i = Len(Cache) /\ Cache[i] = CallRecord)

SameCall(i, j) == i = j \/ (IsCurrent(i) /\ IsCurrent(j))

Keys(sfx) == {k \o sfx : k \in DOMAIN CallRecord}

\* the records the names under suffix sfx were taken from in evaluation e
OriginsOf(e, sfx) == {e.origin[k] : k \in Keys(sfx) \cap DOMAIN e.origin}

\* in evaluation e every name under sfx has the value of record i, and was
\* taken from that record
RoleIs(e, sfx, i) ==
    /\ \A k \in DOMAIN CallRecord : e.globals[k \o sfx] = RecordAt(i)[k]
    /\ \A o \in OriginsOf(e, sfx) : SameCall(o, i)

EvalsOfDepth(d) ==
    SelectSeq(last.evals,
              LAMBDA e : \E p \in Postconditions : p.btdepth = d /\ p.text = e.text)

Range(seq) == {seq[i] : i \in 1..Len(seq)}

AllTrue(evals) == \A e \in Range(evals) : ~IsRaise(e.value) /\ Truthy(e.value)

SomeFalse(evals) == \E e \in Range(evals) : ~IsRaise(e.value) /\ ~Truthy(e.value)

PostconditionsChecked == CheckedCall /\ last.trace = Pipeline

(***************************************************************************)
(* C6.  For a postcondition of depth 1, on every checked call and for      *)
(* every record c in the call cache at check time, the condition is        *)
(* evaluated with the plain names bound to the current call and the        *)
(* backtick names to c, and with the plain names bound to c and the        *)
(* backtick names to the current call, each role's arguments and return    *)
(* value coming from one record; an evaluation that is false raises        *)
(* ExitConditionsError.                                                    *)
(***************************************************************************)
C6_Depth1Pairings ==
    PostconditionsChecked =>
        LET evals == EvalsOfDepth(1) IN
        /\ \A e \in Range(evals) : \E c \in 1..Len(Cache) :
                \/ RoleIs(e, "", 0) /\ RoleIs(e, _bt, c)
                \/ RoleIs(e, "", c) /\ RoleIs(e, _bt, 0)
        /\ SomeFalse(evals) => last.outcome = Raise("ExitConditionsError")
        /\ (AllTrue(evals) /\ \E p \in Postconditions : p.btdepth = 1) =>
                \A c \in 1..Len(Cache) :
                    /\ \E e \in Range(evals) : RoleIs(e, "", 0) /\ RoleIs(e, _bt, c)
                    /\ \E e \in Range(evals) : RoleIs(e, "", c) /\ RoleIs(e, _bt, 0)

\* a call of invert that was checked against an earlier call with other
\* values, both ways round, and returned
C6_Witness ==
    /\ PostconditionsChecked /\ last.func = "invert"
    /\ Len(Cache) = 2 /\ Cache[1].x # Cache[2].x
    /\ Cache[1]["__RETURN__"] # Cache[2]["__RETURN__"]
    /\ Len(last.evals) = 4
    /\ last.outcome = last.returnvalue

(***************************************************************************)
(* C7.  For a postcondition of depth 2 the condition is evaluated for      *)
(* every assignment of the plain, backtick and double-backtick names to    *)
(* records of the current and the cached calls in which the current call   *)
(* takes one of the three roles, and in every evaluation all names with    *)
(* the same suffix, arguments and return value alike, come from one        *)
(* record.                                                                 *)
(***************************************************************************)
C7_Depth2Triples ==
    PostconditionsChecked =>
        LET evals == EvalsOfDepth(2)
            Is(e, a, b, c) ==
                RoleIs(e, "", a) /\ RoleIs(e, _bt, b) /\ RoleIs(e, _dbt, c)
        IN
        /\ \A e \in Range(evals) : \E b, c \in 1..Len(Cache) :
                Is(e, 0, b, c) \/ Is(e, b, 0, c) \/ Is(e, b, c, 0)
        /\ (AllTrue(evals) /\ \E p \in Postconditions : p.btdepth = 2) =>
                \A b, c \in 1..Len(Cache) :
                    (~IsCurrent(b) /\ ~IsCurrent(c) /\ b # c) =>
                        /\ \E e \in Range(evals) : Is(e, 0, b, c)
                        /\ \E e \in Range(evals) : Is(e, b, 0, c)
                        /\ \E e \in Range(evals) : Is(e, b, c, 0)

(***************************************************************************)
(* C8.  In every evaluation of a temporal postcondition the backtick names *)
(* refer to a call other than the one the plain names refer to (and, at    *)
(* depth 2, the single- and double-backtick names to two distinct calls):  *)
(* no call record is compared with itself, and the current call is never   *)
(* paired with itself.                                                     *)
(***************************************************************************)
C8_NoSelfPairing ==
    PostconditionsChecked =>
        \A e \in Range(EvalsOfDepth(1)) \cup Range(EvalsOfDepth(2)) :
            \A s, t \in {"", _bt, _dbt} :
                s # t => \A i \in OriginsOf(e, s), j \in OriginsOf(e, t) :
                            ~SameCall(i, j)

(***************************************************************************)
(* C9.  After every call of a function with a temporal postcondition,      *)
(* whatever calls and changes of max_cache (global or function-local) came *)
(* before, the call cache holds at most as many records as the max_cache   *)
(* in effect for the function.                                             *)
(***************************************************************************)
C9_CacheBounded ==
    (IsCall /\ \E p \in Postconditions : p.btdepth > 0) =>
        Len(Cache) <= ValueSet("max_cache", last.func).n

(***************************************************************************)
(* C10.  After any sequence of global and function-local sets,             *)
(* Settings.get(name, function=f) is the value most recently set locally   *)
(* for f under that name if there was one and the current global value     *)
(* otherwise; a global set changes no function's override, a local set     *)
(* for f changes neither the global value nor another function's override. *)
(***************************************************************************)
LocalOverrides(o) ==
    IF settings_ref[o] = NoAttr THEN EmptyDict ELSE settings_dict[settings_ref[o]]

C10_TwoLevelSettings ==
    /\ global_setting_values = hist.glob
    /\ \A o \in FunctionObjects :
        /\ LocalOverrides(o) = hist.loc[FunctionOf(o)]
        /\ \A name \in DOMAIN DefaultSettings :
            Settings_get(name, o) =
                IF name \in DOMAIN hist.loc[FunctionOf(o)]
                THEN hist.loc[FunctionOf(o)][name]
                ELSE hist.glob[name]

\* max_cache was set for invert and then globally to another value, and f1
\* has an override of 'enabled' only
C10_Witness ==
    /\ last.op = "_set" /\ last.function = None /\ last.name = "max_cache"
    /\ "max_cache" \in DOMAIN hist.loc["invert"]
    /\ hist.loc["invert"]["max_cache"] # hist.glob["max_cache"]
    /\ Settings_get("max_cache", __wrapped__("invert")) = hist.loc["invert"]["max_cache"]
    /\ DOMAIN hist.loc["f1"] = {"enabled"}
    /\ Settings_get("max_cache", "f1") = hist.glob["max_cache"]

(***************************************************************************)
(* C11.  The namespace declared for a function through                     *)
(* paranoidconfig(namespace=...) is the one its preconditions and          *)
(* postconditions are evaluated in: it shadows the global namespace for    *)
(* that function, as the function-local 'enabled' and max_cache do.        *)
(***************************************************************************)
NamespaceFor(w) == ValueSet("namespace", w).items

\* the values of the preconditions of the call in the namespace ns
PreconditionValuesIn(ns) ==
    IF "requires" \in DOMAIN Contract
    THEN {Eval(Contract.requires[i].code, Update(ns, last.argvals)) :
            i \in 1..Len(Contract.requires)}
    ELSE {}

\* the names a condition of the call can see, with the namespace ns
ConditionGlobals(ns) ==
    Update(Update(ns, last.argvals), "__RETURN__" :> last.returnvalue)

C11_LocalNamespaceInjected ==
    CheckedCall =>
        LET ns == NamespaceFor(last.func)
            holds == \A v \in PreconditionValuesIn(ns) : ~IsRaise(v) /\ Truthy(v)
        IN  /\ (ArgumentsConform /\ holds) => "func" \in Range(last.trace)
            /\ (ArgumentsConform /\ ~holds)
                    => last.outcome = Raise("EntryConditionsError")
            /\ \A e \in Range(EvalsOfDepth(0)) :
                    \A k \in NamespaceNames \cup {"__RETURN__"} :
                        IF k \in DOMAIN ConditionGlobals(ns)
                        THEN /\ k \in DOMAIN e.globals
                             /\ e.globals[k] = ConditionGlobals(ns)[k]
                        ELSE k \notin DOMAIN e.globals

(***************************************************************************)
(* C12.  Settings._set with a name that is not a setting, or with a value  *)
(* that is not valid for the setting ('enabled' not a boolean, max_cache   *)
(* not a non-negative integer, max_runtime not a non-negative int or       *)
(* float, namespace not a dict with str keys), raises an error and leaves  *)
(* every global value and every function-local override unchanged.         *)
(***************************************************************************)
IsSet == last.op = "_set"

C12_InvalidSetRejected ==
    LET \* the validity rules as the claim states them (a bool counts as an
        \* integer for max_cache)
        Valid(name, v) ==
            CASE name = "enabled" -> v.kind = "bool"
              [] name = "max_cache" -> v.kind \in {"int", "bool"} /\ v.n >= 0
              [] name = "max_runtime" -> v.kind \in {"int", "float"} /\ v.n >= 0
              [] name = "namespace" -> v.kind = "dict" /\ v.n = 0
              [] OTHER -> FALSE
    IN  (IsSet /\ ~Valid(last.name, last.value)) =>
            last.exc # "none" /\ last.untouched

(***************************************************************************)
(* The function g and the decorators applied to it.                        *)
(***************************************************************************)
OfKind(kind) == {d \in DOMAIN applied : d.kind = kind}

\* the property of g's bag under a name, an empty list when it has none
Declared(name) == IF name \in DOMAIN verify["g"] THEN verify["g"][name] ELSE <<>>

\* how many entries of a list of conditions have the text given
Entries(list, text) == Cardinality({i \in 1..Len(list) : list[i].text = text})

IsDecorate == last.op = "decorate"

CallOfG == IsCall /\ last.func = "g"

Occurrences(trace, phase) == Cardinality({i \in 1..Len(trace) : trace[i] = phase})

(***************************************************************************)
(* C13.  However many decorators are stacked on a function, and in         *)
(* whatever order, there is exactly one interception layer: a decorator    *)
(* applied to a function that is wrapped already returns that wrapped      *)
(* function, so one call invokes the underlying function once and runs     *)
(* each declared check once.                                               *)
(***************************************************************************)
C13_OneInterceptionLayer ==
    /\ layers = IF Stacked = 0 THEN 0 ELSE 1
    /\ CallOfG =>
        /\ \A phase \in Range(Pipeline) : Occurrences(last.trace, phase) <= 1
        /\ (Stacked > 0 /\ EnabledFor("g") /\ EntryChecksPass /\ ReturnConforms)
                => last.trace = Pipeline
        /\ (Stacked = 0 \/ ~EnabledFor("g")) => last.trace = <<"func">>

\* a call of g that went through the five phases, three decorators of
\* different kinds having been stacked on g
C13_Witness ==
    /\ CallOfG /\ last.trace = Pipeline /\ last.outcome = last.returnvalue
    /\ OfKind("accepts") # {} /\ OfKind("requires") # {} /\ OfKind("ensures") # {}
    /\ layers = 1

(***************************************************************************)
(* C14.  The contract of a function is the same for every order in which   *)
(* a set of decorators is stacked on it.  A state tells which decorators   *)
(* were applied and how many times, not in which order, so the statement   *)
(* is that the contract and the verdict on a call are given by the         *)
(* decorators applied alone.  A paranoidconfig applied last is in effect   *)
(* (Settings._set overwrites), so if the order did not matter every        *)
(* paranoidconfig applied would be in effect, each of them being the last  *)
(* one in some order.                                                      *)
(***************************************************************************)
Configs(name) == {d \in OfKind("paranoidconfig") : d.name = name}

\* the objects the name g has been bound to
Bindings == {__wrapped__("g")} \cup (IF layers > 0 THEN {"g"} ELSE {})

\* argument types, return type, preconditions and postconditions are those
\* of the decorators applied
SameConditions ==
    /\ "argtypes" \in DOMAIN verify["g"] <=> OfKind("accepts") # {}
    /\ \A d \in OfKind("accepts") : verify["g"].argtypes = [x |-> d.argtypes[1]]
    /\ "returntype" \in DOMAIN verify["g"] <=> OfKind("returns") # {}
    /\ \A d \in OfKind("returns") : verify["g"].returntype = d.returntype
    /\ \A d \in OfKind("requires") : Entries(Declared("requires"), d.text) = Times(d)
    /\ Len(Declared("requires")) = Sum(applied, OfKind("requires"))
    /\ \A d \in OfKind("ensures") : Entries(Declared("ensures"), d.text) = Times(d)
    /\ Len(Declared("ensures")) = Sum(applied, OfKind("ensures"))

ChecksPass ==
    /\ EntryChecksPass /\ ReturnConforms
    /\ ~PostconditionFalse /\ ~PostconditionRaises

\* the claim as it stands, for any decorators
C14_AnyOrderSameContract ==
    /\ SameConditions
    /\ \A o \in Bindings : \A name \in DOMAIN DefaultSettings :
        /\ \A d \in Configs(name) : Settings_get(name, o) = d.value
        /\ Configs(name) = {} => Settings_get(name, o) = global_setting_values[name]
    /\ (CallOfG /\ Stacked > 0) =>
        (last.outcome = last.returnvalue
            <=> \/ \E d \in Configs("enabled") : ~Truthy(d.value)
                \/ ChecksPass)

(***************************************************************************)
(* C14, amended.  For any two stacking orders of the same decorators in    *)
(* which no setting is given two different values, the contract holds the  *)
(* same argument types, return type, preconditions, postconditions and     *)
(* local settings, and every call is accepted or rejected alike.           *)
(***************************************************************************)
Unconflicted == \A name \in DOMAIN DefaultSettings : Cardinality(Configs(name)) <= 1

C14_StackingOrderIrrelevant ==
    /\ SameConditions
    /\ Unconflicted =>
        /\ \A o \in Bindings : \A name \in DOMAIN DefaultSettings :
            /\ \A d \in Configs(name) : Settings_get(name, o) = d.value
            /\ Configs(name) = {} => Settings_get(name, o) = global_setting_values[name]
        /\ (CallOfG /\ Stacked > 0) =>
            (last.outcome = last.returnvalue
                <=> \/ \E d \in Configs("enabled") : ~Truthy(d.value)
                    \/ ChecksPass)

\* a precondition and then a local setting were stacked on g, and g called
\* unchecked: the setting given to the wrapper reached the function inside
C14_Witness ==
    /\ CallOfG /\ last.trace = <<"func">> /\ layers = 1
    /\ OfKind("requires") # {} /\ Cardinality(OfKind("paranoidconfig")) = 2
    /\ Unconflicted
    /\ last.argvals.x = IntVal(0)
    /\ Entries(Declared("requires"), "x != 0") = 1

(***************************************************************************)
(* C15.  Argument types and the return type are each declared at most      *)
(* once per function: a second accepts or a second returns raises an error *)
(* and leaves the argument types and the return type declared before       *)
(* unchanged.                                                              *)
(***************************************************************************)
C15_TypesDeclaredOnce ==
    /\ Sum(applied, OfKind("accepts")) <= 1
    /\ Sum(applied, OfKind("returns")) <= 1
    /\ \A d \in OfKind("accepts") : verify["g"].argtypes = [x |-> d.argtypes[1]]
    /\ \A d \in OfKind("returns") : verify["g"].returntype = d.returntype
    /\ (IsDecorate /\ last.decorator.kind \in {"accepts", "returns"}) =>
        LET before == Sum(applied, OfKind(last.decorator.kind))
                        - (IF last.exc = "none" THEN 1 ELSE 0)
        IN  before >= 1 => (last.exc # "none" /\ last.untouched)

\* accepts(Unchecked) was refused on g, whose argument type is Number
C15_Witness ==
    /\ IsDecorate /\ last.decorator.kind = "accepts"
    /\ last.decorator.argtypes = <<"Unchecked">>
    /\ last.exc = "ValueError"
    /\ verify["g"].argtypes = [x |-> "Number"]
    /\ "returntype" \in DOMAIN verify["g"]

(***************************************************************************)
(* C16.  Preconditions and postconditions accumulate: after any number of  *)
(* requires and ensures on one function none declared earlier is dropped   *)
(* or replaced, and a call succeeds only if every precondition and every   *)
(* postcondition declared holds.                                           *)
(***************************************************************************)
C16_ConditionsAccumulate ==
    /\ \A d \in OfKind("requires") : Entries(Declared("requires"), d.text) = Times(d)
    /\ \A d \in OfKind("ensures") : Entries(Declared("ensures"), d.text) = Times(d)
    /\ (CallOfG /\ EnabledFor("g") /\ Stacked > 0
            /\ last.outcome = last.returnvalue) =>
        /\ \A d \in OfKind("requires") :
            LET v == Eval(d.tokens[1], last.argvals) IN ~IsRaise(v) /\ Truthy(v)
        /\ \A d \in OfKind("ensures") :
            LET v == Eval(d.tokens[1],
                          Update(last.argvals, "return" :> last.returnvalue))
            IN  ~IsRaise(v) /\ Truthy(v)

\* g("hello") returned 1 with both preconditions and a postcondition on g
C16_Witness ==
    /\ CallOfG /\ last.outcome = last.returnvalue /\ last.trace = Pipeline
    /\ Cardinality(OfKind("requires")) = 2 /\ OfKind("ensures") # {}
    /\ last.argvals.x = Hello /\ last.returnvalue = IntVal(1)

(***************************************************************************)
(* C17.  A condition 'A --> B' holds for a call exactly when A is false or *)
(* B is true, and a condition 'A <--> B' exactly when A and B have the     *)
(* same truth value, whatever the truth values of A and B, in requires and *)
(* in ensures: a call is refused on entry exactly when a precondition so   *)
(* read fails, and returns exactly when every condition so read holds.     *)
(***************************************************************************)
\* the truth value of one side of an arrow in a call
Side(d, i) ==
    Truthy(Eval(d.tokens[i], Update(last.argvals, "return" :> last.returnvalue)))

\* the condition of d as the claim reads it
HoldsAsRead(d) ==
    IF d.tokens[2] = Implies THEN ~Side(d, 1) \/ Side(d, 3)
    ELSE Side(d, 1) <=> Side(d, 3)

C17_ArrowsAreImplications ==
    (CallOfG /\ Stacked > 0) =>
        /\ last.outcome = Raise("EntryConditionsError")
            <=> \E d \in OfKind("requires") : ~HoldsAsRead(d)
        /\ last.outcome = Raise("ExitConditionsError")
            <=> /\ \A d \in OfKind("requires") : HoldsAsRead(d)
                /\ \E d \in OfKind("ensures") : ~HoldsAsRead(d)
        /\ last.outcome = last.returnvalue
            <=> \A d \in DOMAIN applied : HoldsAsRead(d)

\* g(0) is let in by "x != 0 --> x != 1", whose antecedent fails
C17_Witness ==
    /\ CallOfG /\ last.outcome = last.returnvalue
    /\ last.argvals.x = IntVal(0)
    /\ \E d \in OfKind("requires") :
        /\ d.tokens = <<x_ne(0), Implies, x_ne(1)>>
        /\ ~Side(d, 1) /\ Side(d, 3)

(***************************************************************************)
(* test_function: the run, read from the calls it made.                    *)
(***************************************************************************)
\* the declared argument types of the function under test
TestedTypes == get_fun_prop(run.func, "argtypes")

\* every argument type of the function under test yields its values
Generates ==
    /\ has_fun_prop(run.func, "argtypes")
    /\ \A k \in DOMAIN TestedTypes : generate(TestedTypes[k]).exc = "none"

\* the Cartesian product of the generated values, as keyword arguments
Combinations ==
    {kw \in [DOMAIN TestedTypes ->
                UNION {Range(generate(TestedTypes[k]).values) : k \in DOMAIN TestedTypes}] :
        \A k \in DOMAIN TestedTypes : kw[k] \in Range(generate(TestedTypes[k]).values)}

Completed(call) == call.outcome.kind \in {"int", "bool", "str", "NoneType"}

Skipped(call) == call.outcome.kind \in {"EntryConditionsError", "TestCaseTimeoutError"}

CompletedCalls == {i \in 1..Len(run.calls) : Completed(run.calls[i])}

SkippedCalls == {i \in 1..Len(run.calls) : Skipped(run.calls[i])}

(***************************************************************************)
(* C18.  test_function invokes the function once for every tuple of the    *)
(* Cartesian product of the values the argument types generate; a tuple    *)
(* whose call raises EntryConditionsError or times out is skipped without  *)
(* stopping the run; the count returned is the number of tuples whose call *)
(* completed, so that executed and skipped add up to the size of the       *)
(* product.                                                                *)
(***************************************************************************)
C18_EveryTupleTested ==
    /\ (run.pc = "returned" /\ Generates) =>
        /\ {run.calls[i].argvals : i \in 1..Len(run.calls)} = Combinations
        /\ Len(run.calls) = Cardinality(Combinations)
        /\ run.result = Cardinality(CompletedCalls)
        /\ run.result + Cardinality(SkippedCalls) = Cardinality(Combinations)
    /\ run.pc = "loop" =>
        /\ Len(run.calls) = run.tc - 1
        /\ run.totaltests = Cardinality(CompletedCalls)
        /\ \A i \in 1..Len(run.calls) : run.calls[i].argvals \in Combinations
    /\ run.pc = "raised" => \A i \in 1..Len(run.calls) :
        Skipped(run.calls[i]) => i < Len(run.calls)

\* test_function(pair) returned 1: pair(True, None) completed, and
\* pair(False, None), tried after it, was refused on entry
C18_Witness ==
    /\ run.pc = "returned" /\ run.func = "pair" /\ run.result = 1
    /\ Len(run.calls) = 2
    /\ run.calls[1].argvals = [x |-> BoolVal(TRUE), y |-> PyNone]
    /\ run.calls[2].outcome = Raise("EntryConditionsError")

(***************************************************************************)
(* C19.  If an argument type of the function cannot generate values        *)
(* (Function, a Generic class without _generate, Not, an unsubstituted     *)
(* Self, or a type that generates nothing), test_function returns 0 and    *)
(* invokes the function zero times, rather than raising.                   *)
(***************************************************************************)
C19_UngeneratedReportsZero ==
    (/\ last.op = "test_function" /\ run.pc # "loop"
     /\ has_fun_prop(run.func, "argtypes")
     /\ \E k \in DOMAIN TestedTypes :
            TestedTypes[k] \in {"Function", "Generic", "Not", "Self", "Unchecked"})
        => (run.pc = "returned" /\ run.result = 0 /\ run.calls = <<>>)

(***************************************************************************)
(* C20.  In test_function only EntryConditionsError and                    *)
(* TestCaseTimeoutError are swallowed: an ArgumentTypeError, a             *)
(* ReturnTypeError or an ExitConditionsError raised by a generated case    *)
(* leaves test_function, which then makes no further call, so that a run   *)
(* in which a generated case broke the contract never returns normally.    *)
(***************************************************************************)
C20_OnlySkipsSwallowed ==
    /\ \A i \in 1..Len(run.calls) :
        (~Completed(run.calls[i]) /\ ~Skipped(run.calls[i])) =>
            /\ run.pc = "raised" /\ run.exc = run.calls[i].outcome.kind
            /\ i = Len(run.calls)
    /\ run.pc = "returned" => \A i \in 1..Len(run.calls) :
        run.calls[i].outcome.kind \notin
            {"ArgumentTypeError", "ReturnTypeError", "ExitConditionsError"}

\* test_function(pair) ended with ExitConditionsError: pair(True, None)
\* returned False against "return != 0"
C20_Witness ==
    /\ run.pc = "raised" /\ run.func = "pair" /\ run.exc = "ExitConditionsError"
    /\ Len(run.calls) = 1
    /\ run.calls[1].outcome = Raise("ExitConditionsError")

(***************************************************************************)
(* C24.  The record of the current call is appended to the call cache      *)
(* only after the postconditions have been evaluated: while they are       *)
(* evaluated the cache holds records of prior calls only, so no value an   *)
(* evaluation takes from the cache comes from the record of the current    *)
(* call.                                                                   *)
(***************************************************************************)
C24_CacheHoldsPriorCallsOnly ==
    PostconditionsChecked =>
        \A e \in Range(last.evals) : \A k \in DOMAIN e.origin :
            e.origin[k] # 0 => ~IsCurrent(e.origin[k])

(***************************************************************************)
(* C25.  A call that ends in a contract error (ArgumentTypeError,          *)
(* EntryConditionsError, ReturnTypeError or ExitConditionsError) leaves    *)
(* the call cache of the function exactly as it was before the call.       *)
(***************************************************************************)
C25_RejectedCallLeavesCache ==
    (IsCall /\ last.outcome.kind \in
        {"ArgumentTypeError", "EntryConditionsError", "ReturnTypeError",
         "ExitConditionsError"})
        => last.untouched

(***************************************************************************)
(* SpecFifo: max_cache is given its value, globally or for invert alone,   *)
(* before the first call of invert and is left alone afterwards.           *)
(***************************************************************************)
NextFifo ==
    \/ \E x \in Ints, r \in Ints : Call("invert", x, r)
    \/ \E v \in CacheSizes :
            /\ ~has_fun_prop(__wrapped__("invert"), "exec_cache")
            /\ SetGlobal("max_cache", v)
    \/ \E v \in CacheSizes :
            /\ ~has_fun_prop(__wrapped__("invert"), "exec_cache")
            /\ SetLocal("max_cache", v, "invert")

SpecFifo == Init /\ [][NextFifo]_vars

\* the call cache in a property bag
CacheOf(bag) == IF "exec_cache" \in DOMAIN bag THEN bag.exec_cache ELSE <<>>

\* the n last items of a sequence, all of them if there are fewer
MostRecent(records, n) ==
    SubSeq(records, IF Len(records) > n THEN Len(records) - n + 1 ELSE 1,
           Len(records))

(***************************************************************************)
(* C26.  With max_cache fixed at N, the call cache holds the min(k, N)     *)
(* most recent records of the k calls that reached the postcondition       *)
(* check, in call order: the cache never holds more than N records, each   *)
(* call that reaches the postcondition check turns the cache into the N    *)
(* most recent of the old records followed by its own (the oldest is the   *)
(* one that leaves), and no other step changes a record or the cache.      *)
(***************************************************************************)
C26_MostRecentKept ==
    /\ [](Len(CacheOf(verify["invert"])) <= ValueSet("max_cache", "invert").n)
    /\ [][LET old == CacheOf(verify["invert"])
              N == ValueSet("max_cache", "invert").n
          IN  IF PostconditionsChecked'
              THEN CacheOf(verify'["invert"])
                        = MostRecent(Append(old, CallRecord'), N)
              ELSE CacheOf(verify'["invert"]) = old]_vars

\* with max_cache 2, a call rejected by its postcondition is the newer of
\* two different records in the cache
C26_Witness ==
    /\ PostconditionsChecked
    /\ ValueSet("max_cache", "invert") = IntVal(MaxCacheSetting)
    /\ Len(Cache) = MaxCacheSetting
    /\ Cache[Len(Cache)] = CallRecord /\ Cache[1] # CallRecord
    /\ last.outcome = Raise("ExitConditionsError")

(***************************************************************************)
(* SpecShadow: calls of bounded while the global namespace is set to       *)
(* dictionaries whose keys may be the argument name x and the name of the  *)
(* return value.                                                           *)
(***************************************************************************)
ShadowNames == NamespaceNames \cup {"__RETURN__"}

ShadowNamespaces ==
    {DictVal(d) : d \in UNION {[keys -> Ints] : keys \in SUBSET ShadowNames}}

NextShadow ==
    \/ \E x \in Ints, r \in Ints : Call("bounded", x, r)
    \/ \E ns \in ShadowNamespaces : SetGlobal("namespace", ns)

SpecShadow == Init /\ [][NextShadow]_vars

\* the names a condition of the call sees: a name of the call (an argument,
\* or the return value when it is given) has the call's value, any other
\* key of the namespace ns has the namespace's value
SeenBy(ns, call) ==
    [k \in DOMAIN ns \cup DOMAIN call |->
        IF k \in DOMAIN call THEN call[k] ELSE ns[k]]

Preconditions ==
    IF "requires" \in DOMAIN Contract
    THEN {Contract.requires[i] : i \in 1..Len(Contract.requires)} ELSE {}

(***************************************************************************)
(* C27.  When a key of the namespace is also the name of an argument (or   *)
(* the name of the return value in a postcondition), every precondition    *)
(* and postcondition of a checked call is evaluated with the call's value  *)
(* for that name, and decides the call by that value; the call leaves the  *)
(* namespace setting as it was set.                                        *)
(***************************************************************************)
C27_CallValuesShadowNamespace ==
    CheckedCall =>
        LET ns == NamespaceFor(last.func)
            entry == SeenBy(ns, last.argvals)
            exit == SeenBy(ns, last.argvals @@ ("__RETURN__" :> last.returnvalue))
            holds(c, g) == LET v == Eval(c.code, g) IN ~IsRaise(v) /\ Truthy(v)
        IN  /\ ("func" \in Range(last.trace))
                <=> \A c \in Preconditions : holds(c, entry)
            /\ \A e \in Range(last.evals) :
                    \A k \in DOMAIN exit :
                        k \in DOMAIN e.globals /\ e.globals[k] = exit[k]
            /\ last.trace = Pipeline =>
                    ((last.outcome = last.returnvalue)
                        <=> \A c \in Postconditions : holds(c, exit))
            /\ global_setting_values["namespace"] = hist.glob["namespace"]

\* bounded(1) returned 1 and passed "x >= theval" and "return >= theval"
\* with theval = 1 while the namespace bound x and the return value to 0
C27_Witness ==
    /\ CheckedCall /\ last.func = "bounded" /\ last.outcome = last.returnvalue
    /\ last.argvals.x = IntVal(1) /\ last.returnvalue = IntVal(1)
    /\ global_setting_values["namespace"]
         = DictVal([k \in ShadowNames |->
                        IF k = "theval" THEN IntVal(1) ELSE IntVal(0)])
    /\ Len(last.evals) = 1

(***************************************************************************)
(* SpecArrows: requires and ensures put on g with one arrow and with two   *)
(* (two -->, two <-->, one of each in either order), and calls of g.       *)
(***************************************************************************)
TwoArrowed(kind, a, first, b, second, c) ==
    [kind |-> kind, tokens |-> <<a.code, first, b.code, second, c.code>>,
     text |-> a.text \o " " \o first.op \o " " \o b.text
                     \o " " \o second.op \o " " \o c.text]

TwoArrowDecorators ==
    {TwoArrowed("requires", a, first, Atom("x != 1", x_ne(1)), second,
                Atom("x != 0", x_ne(0))) :
        a \in {Atom("x != 0", x_ne(0)), Atom("x != 1", x_ne(1))},
        first \in {Implies, Iff}, second \in {Implies, Iff}}
    \cup {TwoArrowed("ensures", a, first, Atom("return != 0", return_ne(0)),
                     second, Atom("x != 0", x_ne(0))) :
            a \in {Atom("x != 0", x_ne(0)), Atom("return != 0", return_ne(0))},
            first \in {Implies, Iff}, second \in {Implies, Iff}}

NextArrows ==
    \/ \E d \in ArrowDecorators : Stacked < MaxArrows /\ Decorate(d)
    \/ \E d \in TwoArrowDecorators : Decorate(d)
    \/ \E x \in Values, r \in Values : CallStacked(x, r)

SpecArrows == Init /\ [][NextArrows]_vars

\* how many of the tokens are arrows
ArrowCount(tokens) ==
    Cardinality({i \in 1..Len(tokens) : tokens[i].op \in {"-->", "<-->"}})

\* the texts of the conditions stored on g
StoredTexts ==
    UNION {{verify["g"][p][i].text : i \in 1..Len(verify["g"][p])} :
            p \in {"requires", "ensures"} \cap DOMAIN verify["g"]}

(***************************************************************************)
(* C28.  A requires or an ensures whose condition has more than one        *)
(* implication arrow (two -->, two <-->, or one of each) ends with an      *)
(* error when it is applied and leaves the stored preconditions and        *)
(* postconditions as they were; no such condition is ever stored.          *)
(***************************************************************************)
C28_SeveralArrowsRejected ==
    /\ (IsDecorate /\ last.decorator.kind \in {"requires", "ensures"}
            /\ ArrowCount(last.decorator.tokens) > 1)
        => (last.exc # "none" /\ last.untouched)
    /\ \A d \in TwoArrowDecorators : Times(d) = 0 /\ d.text \notin StoredTexts

\* "x != 0 --> x != 1 <--> x != 0" was refused as a requires on a g that
\* holds a condition already
C28_Witness ==
    /\ IsDecorate
    /\ last.decorator.kind = "requires"
    /\ last.decorator.tokens
         = <<x_ne(0), Implies, x_ne(1), Iff, x_ne(0)>>
    /\ last.exc = "SyntaxError"
    /\ StoredTexts # {}

(***************************************************************************)
(* Several options in one call.  Settings.set(...) and paranoidconfig(...)  *)
(* with keyword arguments hand the options to Settings._set one after      *)
(* the other, in the order they were written; each _set acts on the store  *)
(* the one before left, and the first exception ends the loop.             *)
(***************************************************************************)
MaxOptions == 2

Store ==
    [glob |-> global_setting_values, ref |-> settings_ref, dict |-> settings_dict]

\* Settings._set(name, value, function) on the store as it stands within
\* the loop
_set(store, name, value, function) ==
    IF name \notin DOMAIN store.glob
    THEN [exc |-> "NameError", store |-> store]
    ELSE IF ~validate_settings(name, value)
    THEN [exc |-> "ValueError", store |-> store]
    ELSE IF function # None THEN
        LET create == store.ref[function] = NoAttr
            ref1 == IF create THEN [store.ref EXCEPT ![function] = function]
                    ELSE store.ref
            dict1 == IF create THEN [store.dict EXCEPT ![function] = EmptyDict]
                     ELSE store.dict
            ref2 == IF create /\ HasWrapped(function)
                    THEN [ref1 EXCEPT ![__wrapped__(function)] = ref1[function]]
                    ELSE ref1
        IN  [exc |-> "none",
             store |-> [glob |-> store.glob, ref |-> ref2,
                        dict |-> [dict1 EXCEPT ![ref2[function]] =
                                        Update(@, name :> value)]]]
    ELSE [exc |-> "none",
          store |-> [store EXCEPT !.glob = [@ EXCEPT ![name] = value]]]

\* after(r, ...): the loop goes on from the store r left, or ends with the
\* exception r raised, i - 1 options having been set
RECURSIVE kwargs_items(_, _, _, _)
after(r, kwargs, i, function) ==
    IF r.exc # "none" THEN [exc |-> r.exc, store |-> r.store, done |-> i - 1]
    ELSE kwargs_items(kwargs, i + 1, function, r.store)

\* for k,v in kwargs.items(): Settings._set(k, v, function), from the i-th on
kwargs_items(kwargs, i, function, store) ==
    IF i > Len(kwargs) THEN [exc |-> "none", store |-> store, done |-> Len(kwargs)]
    ELSE after(_set(store, kwargs[i][1], kwargs[i][2], function),
               kwargs, i, function)

\* the options that were set: the first n of kwargs, as a dictionary
OptionsSet(kwargs, n) ==
    [k \in {kwargs[i][1] : i \in 1..n} |->
        kwargs[CHOOSE i \in 1..n : kwargs[i][1] = k][2]]

\* Settings.set(...)
SettingsSet(kwargs) ==
    \E r \in {kwargs_items(kwargs, 1, None, Store)} :
    /\ global_setting_values' = r.store.glob
    /\ settings_ref' = r.store.ref
    /\ settings_dict' = r.store.dict
    /\ hist' = [hist EXCEPT !.glob = Update(@, OptionsSet(kwargs, r.done))]
    /\ last' = [op |-> "set", kwargs |-> kwargs, exc |-> r.exc,
                untouched |-> r.store = Store]
    /\ UNCHANGED <<verify, layers, applied, run>>

\* g = paranoidconfig(...)(g): the options are set for the object g is
\* bound to, then _wrap
Paranoidconfig(kwargs) ==
    \E r \in {kwargs_items(kwargs, 1, Bound, Store)} :
    \E w \in {_wrap(verify["g"])} :
    /\ global_setting_values' = r.store.glob
    /\ settings_dict' = r.store.dict
    /\ settings_ref' = IF r.exc = "none" /\ w.wrapped /\ layers = 0
                       THEN [r.store.ref EXCEPT
                                !["g"] = r.store.ref[__wrapped__("g")]]
                       ELSE r.store.ref
    /\ verify' = IF r.exc = "none" THEN [verify EXCEPT !["g"] = w.bag] ELSE verify
    /\ layers' = IF r.exc = "none" /\ w.wrapped THEN layers + 1 ELSE layers
    /\ hist' = [hist EXCEPT !.loc["g"] = Update(@, OptionsSet(kwargs, r.done))]
    /\ last' = [op |-> "paranoidconfig", kwargs |-> kwargs, exc |-> r.exc,
                untouched |-> r.store = Store]
    /\ UNCHANGED <<applied, run>>

(***************************************************************************)
(* SpecOptions: Settings.set and paranoidconfig (on g) given up to         *)
(* MaxOptions options at once, among them names that are no setting and    *)
(* values that are not valid.                                              *)
(***************************************************************************)
Options ==
    {<<"enabled", BoolVal(FALSE)>>, <<"enabled", Hello>>,
     <<"max_cache", IntVal(1)>>, <<"max_cache", IntVal(-1)>>,
     <<"max_chache", IntVal(1)>>}

\* keyword arguments: each name at most once
Kwargs ==
    {kw \in UNION {[1..n -> Options] : n \in 1..MaxOptions} :
        \A i, j \in DOMAIN kw : i # j => kw[i][1] # kw[j][1]}

NextOptions ==
    \/ \E kw \in Kwargs : SettingsSet(kw)
    \/ \E kw \in Kwargs : Paranoidconfig(kw)

SpecOptions == Init /\ [][NextOptions]_vars

(***************************************************************************)
(* C29.  Several options given to one paranoidconfig(...) or one           *)
(* Settings.set(...) are taken all or none: when any of them is rejected,  *)
(* none of the others takes effect, that is, the settings are as they      *)
(* were before the call.                                                   *)
(***************************************************************************)
C29_OptionsAllOrNothing ==
    (last.op \in {"set", "paranoidconfig"} /\ last.exc # "none")
        => last.untouched

(***************************************************************************)
(* types/numeric.py: the Range types, and types/base.py: And, Or, Nothing. *)
(* A real number is held as a count of steps on a line whose step is       *)
(* EPSILON / 8 (EPSILON is the 1e-5 of Range.generate), so that low +      *)
(* EPSILON and the quarter points of a range whose bounds are multiples of *)
(* four steps are exact; the two infinities are values of their own.       *)
(***************************************************************************)
EPSILON == 8

MaxBound == 2

Real(steps) == [kind |-> "real", n |-> steps]

\* math.inf and -math.inf
Inf(sign) == [kind |-> "inf", n |-> sign]

isinf(v) == v.kind = "inf"

\* isinstance(v, NUMERIC_TYPES) and math.isfinite(v)
isfinite(v) == v.kind = "real"

\* a < b and a <= b on numbers
lt(a, b) ==
    IF isinf(a) THEN a.n = -1 /\ b # a
    ELSE IF isinf(b) THEN b.n = 1
    ELSE a.n < b.n

le(a, b) == a = b \/ lt(a, b)

ExtendedReal_test(v) == v.kind \in {"real", "inf"}

RangeClasses == {"Range", "RangeClosedOpen", "RangeOpenClosed", "RangeOpen"}

\* Range.__init__, which the three other classes inherit
Range__init__(cls, low, high) ==
    IF ~(ExtendedReal_test(low) /\ ExtendedReal_test(high))
    THEN [exc |-> "AssertionError"]
    ELSE IF ~lt(low, high) THEN [exc |-> "AssertionError"]
    ELSE IF isinf(low) /\ isinf(high) THEN [exc |-> "AssertionError"]
    ELSE [exc |-> "none", type |-> [cls |-> cls, low |-> low, high |-> high]]

\* Range.test with the lower bound left out of the range
Range_test_above(t, v) == isfinite(v) /\ lt(t.low, v) /\ le(v, t.high)

\* Range.test: Number.test, then low <= v <= high
Range_test(t, v) == isfinite(v) /\ le(t.low, v) /\ le(v, t.high)

RangeClosedOpen_test(t, v) == Range_test(t, v) /\ v # t.high

RangeOpenClosed_test(t, v) == Range_test(t, v) /\ v # t.low

RangeOpen_test(t, v) == Range_test(t, v) /\ v # t.low /\ v # t.high

Range_generate(t) ==
    LET l == t.low
        h == t.high
    IN  (IF ~isinf(l) THEN <<l, Real(l.n + EPSILON)>> ELSE <<>>)
        \o (IF ~isinf(h) THEN <<h, Real(h.n - EPSILON)>> ELSE <<>>)
        \o (IF ~(isinf(l) \/ isinf(h))
            THEN <<Real(l.n + (h.n - l.n) \div 4),
                   Real(l.n + (h.n - l.n) \div 2),
                   Real(l.n + (3 * (h.n - l.n)) \div 4)>>
            ELSE <<>>)

RangeClosedOpen_generate(t) ==
    SelectSeq(Range_generate(t), LAMBDA v : v # t.high)

RangeOpenClosed_generate(t) ==
    SelectSeq(Range_generate(t), LAMBDA v : v # t.low)

RangeOpen_generate(t) ==
    SelectSeq(Range_generate(t), LAMBDA v : v \notin {t.low, t.high})

Nothing == [cls |-> "Nothing"]

And(a, b) == [cls |-> "And", types |-> <<a, b>>]

Or(a, b) == [cls |-> "Or", types |-> <<a, b>>]

\* t.test(v): TRUE when no AssertionError is raised
RECURSIVE test(_, _)
test(t, v) ==
    CASE t.cls = "Range" -> Range_test(t, v)
      [] t.cls = "RangeClosedOpen" -> RangeClosedOpen_test(t, v)
      [] t.cls = "RangeOpenClosed" -> RangeOpenClosed_test(t, v)
      [] t.cls = "RangeOpen" -> RangeOpen_test(t, v)
      [] t.cls = "Nothing" -> Nothing_test(v)
      [] t.cls = "And" -> \A i \in 1..Len(t.types) : test(t.types[i], v)
      [] OTHER -> \E i \in 1..Len(t.types) : test(t.types[i], v)

\* list(t.generate())
RECURSIVE Type_generate(_)
\* e for t in types for e in t.generate(), from the i-th type on
RECURSIVE chain(_, _)
chain(types, i) ==
    IF i > Len(types) THEN <<>>
    ELSE Type_generate(types[i]) \o chain(types, i + 1)

Type_generate(t) ==
    CASE t.cls = "Range" -> Range_generate(t)
      [] t.cls = "RangeClosedOpen" -> RangeClosedOpen_generate(t)
      [] t.cls = "RangeOpenClosed" -> RangeOpenClosed_generate(t)
      [] t.cls = "RangeOpen" -> RangeOpen_generate(t)
      [] t.cls = "Nothing" -> <<PyNone>>
      [] t.cls = "And" ->
            SelectSeq(chain(t.types, 1),
                      LAMBDA g : \A i \in 1..Len(t.types) : test(t.types[i], g))
      [] OTHER -> chain(t.types, 1)

\* the type at hand
Constructed == "type" \in DOMAIN last

\* T = cls(low, high), once: what follows works on T
TypeInit(cls, low, high) ==
    /\ ~Constructed
    /\ last' = [op |-> "__init__", cls |-> cls, low |-> low, high |-> high]
                @@ Range__init__(cls, low, high)
    /\ UNCHANGED <<global_setting_values, settings_ref, settings_dict, verify,
                   hist, layers, applied, run>>

\* T = And(T, other) or T = Or(T, other)
Compose(cls, other) ==
    /\ Constructed /\ last.type.cls \in RangeClasses
    /\ last' = [op |-> "__init__", cls |-> cls, exc |-> "none",
                type |-> IF cls = "And" THEN And(last.type, other)
                         ELSE Or(last.type, other)]
    /\ UNCHANGED <<global_setting_values, settings_ref, settings_dict, verify,
                   hist, layers, applied, run>>

\* v in T
TypeTest(v) ==
    /\ Constructed
    /\ last' = [op |-> "test", type |-> last.type, v |-> v,
                passed |-> test(last.type, v)]
    /\ UNCHANGED <<global_setting_values, settings_ref, settings_dict, verify,
                   hist, layers, applied, run>>

\* for v in T.generate(): T.test(v)
TypeGenerate ==
    /\ Constructed
    /\ \E generated \in {Type_generate(last.type)} :
        last' = [op |-> "generate", type |-> last.type, generated |-> generated,
                 failed |-> {i \in 1..Len(generated) :
                                ~test(last.type, generated[i])}]
    /\ UNCHANGED <<global_setting_values, settings_ref, settings_dict, verify,
                   hist, layers, applied, run>>

(***************************************************************************)
(* SpecTypes: a Range of any of the four classes built from every pair of  *)
(* bounds, put in an And or an Or, tested on values and made to generate.  *)
(***************************************************************************)
Bounds == {Real(4 * k) : k \in (-MaxBound)..MaxBound} \cup {Inf(-1), Inf(1)}

Operands ==
    {Nothing, [cls |-> "RangeOpen", low |-> Real(0), high |-> Real(4 * MaxBound)],
     [cls |-> "Range", low |-> Inf(-1), high |-> Real(0)]}

NextTypes ==
    \/ \E cls \in RangeClasses, low \in Bounds, high \in Bounds :
            TypeInit(cls, low, high)
    \/ \E cls \in {"And", "Or"}, other \in Operands : Compose(cls, other)
    \/ \E v \in Bounds \cup {PyNone, Hello} : TypeTest(v)
    \/ TypeGenerate

SpecTypes == Init /\ [][NextTypes]_vars

\* a value of one of the four Range classes was tested
RangeTested == last.op = "test" /\ last.type.cls \in RangeClasses

\* the bounds the classes are declared to include
LowIncluded(cls) == cls \in {"Range", "RangeClosedOpen"}

HighIncluded(cls) == cls \in {"Range", "RangeOpenClosed"}

(***************************************************************************)
(* C23 as stated.  For every pair of bounds the Range constructor accepts  *)
(* (low < high, not both infinite): Range accepts both endpoints,          *)
(* RangeClosedOpen accepts low and rejects high, RangeOpenClosed rejects   *)
(* low and accepts high, RangeOpen rejects both.                           *)
(***************************************************************************)
C23_EndpointsAsDeclared ==
    RangeTested =>
        /\ last.v = last.type.low => (last.passed <=> LowIncluded(last.type.cls))
        /\ last.v = last.type.high => (last.passed <=> HighIncluded(last.type.cls))

(***************************************************************************)
(* C23.  For every pair of bounds the Range constructor accepts, an        *)
(* endpoint that is finite is accepted or rejected as the class declares   *)
(* (Range accepts both, RangeClosedOpen low only, RangeOpenClosed high     *)
(* only, RangeOpen neither); an endpoint that is infinite is rejected by   *)
(* all four classes.                                                       *)
(***************************************************************************)
C23_FiniteEndpointsAsDeclared ==
    RangeTested =>
        /\ (last.v = last.type.low /\ ~isinf(last.v))
                => (last.passed <=> LowIncluded(last.type.cls))
        /\ (last.v = last.type.high /\ ~isinf(last.v))
                => (last.passed <=> HighIncluded(last.type.cls))
        /\ isinf(last.v) => ~last.passed

\* RangeClosedOpen(0, 4) refused its upper bound
C23_Witness ==
    /\ RangeTested /\ last.type.cls = "RangeClosedOpen"
    /\ last.type.low = Real(0) /\ last.type.high = Real(4)
    /\ last.v = last.type.high /\ ~last.passed

(***************************************************************************)
(* C22.  For every type T (every Range class with any valid bounds, every  *)
(* And and Or of types), each value T.generate() yields passes T.test().   *)
(***************************************************************************)
C22_GeneratedValuesPass ==
    last.op = "generate" => last.failed = {}

(***************************************************************************)
(* Calls with other arguments than the one x: a method called on an        *)
(* instance, a function called with keywords only.                         *)
(***************************************************************************)
CallWith(w, argvals, returnvalue) ==
    \E out \in {_decorated(__wrapped__(w), argvals, returnvalue)} :
    /\ verify' = [verify EXCEPT ![w] = out.bag]
    /\ last' = [op |-> "call", func |-> w, argvals |-> argvals,
                returnvalue |-> returnvalue, trace |-> out.trace,
                outcome |-> out.outcome, evals |-> out.evals,
                untouched |-> out.bag = verify[w]]
    /\ UNCHANGED <<global_setting_values, settings_ref, settings_dict, hist,
                   layers, applied, run>>

(***************************************************************************)
(* paranoidclass.  dir(cls) holds the methods of cls, the inherited ones   *)
(* among them; an inherited method is the one function object of the base  *)
(* class, with its one property bag.                                       *)
(***************************************************************************)
dir(cls) ==
    IF cls = "MyClassSub1" THEN {"MyClass.f", "MyClassSub1.g"} ELSE {"MyClass.f"}

\* the bag of meth once paranoidclass(cls) has looked at it
resolved(cls, bag) ==
    LET argtypes ==
            IF "argtypes" \in DOMAIN bag /\ "self" \in DOMAIN bag.argtypes
               /\ bag.argtypes.self = "Self"
            THEN Update(bag, "argtypes" :> [bag.argtypes EXCEPT !.self = Generic(cls)])
            ELSE bag
    IN  IF "returntype" \in DOMAIN argtypes /\ argtypes.returntype = "Self"
        THEN Update(argtypes, "returntype" :> Generic(cls))
        ELSE argtypes

paranoidclass(cls) ==
    [w \in Wrappers |-> IF w \in dir(cls) THEN resolved(cls, verify[w]) ELSE verify[w]]

ClassDecorator(cls) == [kind |-> "paranoidclass", cls |-> cls]

\* cls = paranoidclass(cls), once for a class
Paranoidclass(cls) ==
    /\ Times(ClassDecorator(cls)) = 0
    /\ verify' = paranoidclass(cls)
    /\ applied' = Update(applied, ClassDecorator(cls) :> 1)
    /\ last' = [op |-> "paranoidclass", cls |-> cls]
    /\ UNCHANGED <<global_setting_values, settings_ref, settings_dict, hist,
                   layers, run>>

\* cls().meth(), the body returning returnvalue
MethodCall(meth, cls, returnvalue) ==
    /\ meth \in dir(cls)
    /\ CallWith(meth, [self |-> Instance(cls)], returnvalue)

(***************************************************************************)
(* SpecClasses: paranoidclass applied to MyClass, MyClassSub1 and          *)
(* MyClassSub2, to any of them and in any order, and the methods f         *)
(* (inherited from MyClass) and g called on instances of the three.        *)
(***************************************************************************)
NextClasses ==
    \/ \E cls \in Classes : Paranoidclass(cls)
    \/ \E cls \in Classes, meth \in Wrappers, r \in Values :
            MethodCall(meth, cls, r)

SpecClasses == Init /\ [][NextClasses]_vars

\* the classes paranoidclass was applied to
ParanoidClasses == {c \in Classes : Times(ClassDecorator(c)) > 0}

(***************************************************************************)
(* C21.  paranoidclass resolves the Self of every method to a type bound   *)
(* to the decorated class, for each class on its own: a method declared    *)
(* with Self, inherited or not, that is called on an instance of a class   *)
(* paranoidclass was applied to is checked against that class, whatever    *)
(* other classes paranoidclass was applied to, so the instance is accepted *)
(* as self.                                                                *)
(***************************************************************************)
C21_SelfResolvedPerClass ==
    (/\ IsCall /\ "self" \in DOMAIN last.argvals
     /\ last.argvals.self.kind \in ParanoidClasses)
        => last.outcome.kind \notin {"ArgumentTypeError", "VerifyError"}

(***************************************************************************)
(* accepts on a function whose only parameter is **kwargs, the types given *)
(* by keyword.  getcallargs binds the whole dictionary of types to the     *)
(* parameter kwargs; the entry is then replaced by KeywordArguments.       *)
(***************************************************************************)
accepts_keywords(kwargtypes, bag) ==
    LET bound == [kwargs |-> DictVal(kwargtypes)]
        argtypes == [k \in DOMAIN bound |->
                        IF k = "kwargs" THEN "KeywordArguments" ELSE bound[k]]
    IN  IF "argtypes" \in DOMAIN bag THEN [exc |-> "ValueError", bag |-> bag]
        ELSE [exc |-> "none", bag |-> Update(bag, "argtypes" :> argtypes)]

KeywordDecorator(kwargtypes) == [kind |-> "accepts", kwargtypes |-> kwargtypes]

\* kwarg_only = accepts(x=..., y=...)(kwarg_only)
AcceptsKeywords(kwargtypes) ==
    \E r \in {accepts_keywords(kwargtypes, verify["kwarg_only"])} :
    /\ verify' = [verify EXCEPT !["kwarg_only"] =
                    IF r.exc = "none" THEN _wrap(r.bag).bag ELSE r.bag]
    /\ applied' = IF r.exc = "none"
                  THEN Update(applied, KeywordDecorator(kwargtypes) :> 1)
                  ELSE applied
    /\ last' = [op |-> "decorate", decorator |-> KeywordDecorator(kwargtypes),
                exc |-> r.exc, untouched |-> r.bag = verify["kwarg_only"]]
    /\ UNCHANGED <<global_setting_values, settings_ref, settings_dict, hist,
                   layers, run>>

\* kwarg_only(x=..., y=...) once it is decorated: getcallargs binds kw to kwargs
CallKeywords(kw, returnvalue) ==
    /\ has_fun_prop("kwarg_only", "active")
    /\ CallWith("kwarg_only", [kwargs |-> DictVal(kw)], returnvalue)

(***************************************************************************)
(* SpecKeywords: kwarg_only, which takes keywords only, given types for x   *)
(* and y by keyword, then called with values of every kind for x and y.     *)
(***************************************************************************)
KeywordTypes ==
    UNION {[keys -> {"Number", "Boolean"}] : keys \in {{"x"}, {"x", "y"}}}

NextKeywords ==
    \/ \E kwargtypes \in KeywordTypes : AcceptsKeywords(kwargtypes)
    \/ \E kw \in [{"x", "y"} -> Values], r \in Ints : CallKeywords(kw, r)

SpecKeywords == Init /\ [][NextKeywords]_vars

\* the types accepts was given by keyword for kwarg_only
KeywordsDeclared ==
    UNION {{d.kwargtypes} : d \in {a \in DOMAIN applied : a.kind = "accepts"}}

(***************************************************************************)
(* C30.  The types accepts declares by keyword for a function that takes   *)
(* the keywords through **kwargs are enforced keyword by keyword: a call   *)
(* that passes, for a declared keyword, a value that fails the declared    *)
(* type raises ArgumentTypeError.                                          *)
(***************************************************************************)
C30_KeywordTypesEnforced ==
    (/\ CheckedCall /\ last.func = "kwarg_only"
     /\ \E types \in KeywordsDeclared :
            \E k \in DOMAIN types \cap DOMAIN last.argvals.kwargs.items :
                ~Type_test(types[k], last.argvals.kwargs.items[k]))
        => last.outcome = Raise("ArgumentTypeError")

====
